---- MODULE Spec2Model ----
(***************************************************************************)
(* State-machine model of the turn-based game engine's controller:         *)
(* GameController (action / turn protocol), GameStateManager (current      *)
(* state, bounded history, redo stack), TurnManager with the sequential    *)
(* turn-order strategy, and the event bus seen as the trace of emitted     *)
(* events.  The rules object is the controller's environment: a small      *)
(* instance of IGameRules whose answers are selected by the action type.   *)
(***************************************************************************)
EXTENDS Integers, Sequences, FiniteSets, TLC

VARIABLES
    config,             \* GameController.config (IGameConfig | null)
    currentState,       \* GameStateManager.currentState (IGameState | null)
    history,            \* GameStateManager.history, oldest first
    redoStack,          \* GameStateManager.redoStack, newest last
    players,            \* TurnManager.players (ids, in order)
    currentPlayerIndex, \* TurnManager.currentPlayerIndex (0-based)
    events,             \* every event emitted on the event bus, in order
    now,                \* the clock read by Date.now()
    ret,                \* the last controller call: input, return value or throw
    turnOrder,          \* TurnManager.turnOrderStrategy (with its cursor)
    prev,               \* the manager's fields before the last call
    search,             \* the AI decision under study (none in the controller)
    aiPlayers,          \* GameController.aiPlayers (player id -> AI)
    bus,                \* the EventBus: handler sets, listeners, closures
    checkpoints,        \* GameStateManager.checkpoints (id -> state | null)
    heap                \* the objects of a payload that deepClone is given

vars == <<config, currentState, history, redoStack, players,
          currentPlayerIndex, events, now, ret, turnOrder, prev, search,
          aiPlayers, bus, checkpoints, heap>>

----------------------------------------------------------------------------
(* Bounds of the model *)

MaxTurn == 3        \* endTurn is not called once turnNumber reached it
MaxScore == 2       \* a "move" is not tried once gameData.score reached it
MaxEvents == 8      \* no call is made once the event trace is this long
MaxClock == 1       \* the clock stops advancing here
maxHistorySize == 3 \* GameStateManager constructor argument (default 100)

----------------------------------------------------------------------------
(* Values *)

Null == [null |-> TRUE]              \* null where an object is expected
NoState == [undefined |-> TRUE]      \* an absent newState
Undefined == "undefined"             \* an absent string property

PlayerIds == {"p1", "p2", "p3"}

\* The player lists offered to initialize(): two valid ones, one too
\* short, one with a duplicate id, one empty.
PlayerLists ==
    { <<"p1", "p2">>, <<"p1", "p2", "p3">>, <<"p1">>, <<"p1", "p1">>, <<>> }

\* IGameConfig values; the last one has no players field at all.
Configs == { [players |-> l] : l \in PlayerLists } \cup { [seed |-> "s"] }

\* IGameAction: the player who acts and the kind of action (action.data.type)
ActionTypes == {"move", "win", "draw", "illegal", "fail", "nostate"}
Actions == [playerId : {"p1", "p2", "p3"}, type : ActionTypes]

Last(s) == s[Len(s)]
Front(s) == SubSeq(s, 1, Len(s) - 1)
Ids(l) == { l[i] : i \in 1..Len(l) }

\* Array.prototype.indexOf / findIndex on a list of ids, 0-based, -1 if absent
IndexOf(l, id) ==
    IF \E i \in 1..Len(l) : l[i] = id
    THEN (CHOOSE i \in 1..Len(l) : l[i] = id /\ \A j \in 1..(i-1) : l[j] # id) - 1
    ELSE -1

----------------------------------------------------------------------------
(* deepClone of a game state: a fresh object is built and every own        *)
(* property is copied into it, recursively (plain objects and arrays; a    *)
(* primitive, undefined included, is returned as it is).  A property that  *)
(* is present with the value undefined stays present.                      *)

cloneArray(arr) == [i \in 1..Len(arr) |-> arr[i]]

deepClone(obj) ==
    [ gameData |-> [score |-> obj.gameData.score,
                    result |-> obj.gameData.result],
      turnInfo |-> [turnNumber |-> obj.turnInfo.turnNumber,
                    currentPlayerId |-> obj.turnInfo.currentPlayerId,
                    movesThisTurn |-> obj.turnInfo.movesThisTurn,
                    timeStarted |-> obj.turnInfo.timeStarted],
      players |-> cloneArray(obj.players),
      phase |-> obj.phase,
      isComplete |-> obj.isComplete,
      winnerId |-> obj.winnerId ]

----------------------------------------------------------------------------
(* The rules (IGameRules instance) *)

createInitialState(cfg, time) ==
    [ gameData |-> [score |-> 0, result |-> "none"],
      turnInfo |-> [turnNumber |-> 1,
                    currentPlayerId |-> cfg.players[1],
                    movesThisTurn |-> 0,
                    timeStarted |-> time],
      players |-> cfg.players,
      phase |-> "playing",
      isComplete |-> FALSE,
      winnerId |-> Undefined ]

validateAction(action, state) ==
    IF action.playerId # state.turnInfo.currentPlayerId
    THEN [isValid |-> FALSE, reason |-> "Not your turn"]
    ELSE IF action.type = "illegal"
    THEN [isValid |-> FALSE, reason |-> Undefined]
    ELSE [isValid |-> TRUE, reason |-> Undefined]

\* rules.executeAction: the declarative result of an action
rulesExecuteAction(action, state) ==
    CASE action.type = "fail" ->
           [success |-> FALSE, newState |-> NoState,
            error |-> "Player not found", sideEffects |-> <<>>]
      [] action.type = "nostate" ->
           [success |-> TRUE, newState |-> NoState,
            error |-> Undefined, sideEffects |-> <<>>]
      [] action.type = "move" ->
           [success |-> TRUE,
            newState |-> [state EXCEPT !.gameData.score = @ + 1,
                                       !.turnInfo.movesThisTurn = @ + 1],
            error |-> Undefined, sideEffects |-> <<"moved">>]
      [] action.type = "win" ->
           [success |-> TRUE,
            newState |-> [state EXCEPT !.gameData.result = action.playerId,
                                       !.turnInfo.movesThisTurn = @ + 1],
            error |-> Undefined, sideEffects |-> <<"scored", "eliminated">>]
      [] OTHER ->
           [success |-> TRUE,
            newState |-> [state EXCEPT !.gameData.result = "draw",
                                       !.turnInfo.movesThisTurn = @ + 1],
            error |-> Undefined, sideEffects |-> <<>>]

checkEndCondition(state) ==
    IF state.gameData.result = "none"
    THEN [isEnded |-> FALSE, winnerId |-> Undefined, reason |-> Undefined]
    ELSE IF state.gameData.result = "draw"
    THEN [isEnded |-> TRUE, winnerId |-> Undefined, reason |-> "draw"]
    ELSE [isEnded |-> TRUE, winnerId |-> state.gameData.result,
          reason |-> "Player eliminated"]

----------------------------------------------------------------------------
(* GameStateManager, as functions on the manager's three fields *)

Manager == [currentState |-> currentState, history |-> history,
            redoStack |-> redoStack]

\* Mutant of setState: the redo stack survives a commit.
setState_KeepRedo(m, state) ==
    LET pushed == IF m.currentState # Null
                  THEN Append(m.history, deepClone(m.currentState))
                  ELSE m.history
    IN [ currentState |-> deepClone(state),
         history |-> IF Len(pushed) > maxHistorySize THEN Tail(pushed) ELSE pushed,
         redoStack |-> m.redoStack ]

\* Mutant of setState: the history is never cut.
setState_NoLimit(m, state) ==
    LET pushed == IF m.currentState # Null
                  THEN Append(m.history, deepClone(m.currentState))
                  ELSE m.history
    IN [ currentState |-> deepClone(state),
         history |-> pushed,
         redoStack |-> <<>> ]

setState(m, state) ==
    LET pushed == IF m.currentState # Null
                  THEN Append(m.history, deepClone(m.currentState))
                  ELSE m.history
    IN [ currentState |-> deepClone(state),
         history |-> IF Len(pushed) > maxHistorySize THEN Tail(pushed) ELSE pushed,
         redoStack |-> <<>> ]

getCurrentState(m) ==
    IF m.currentState # Null THEN deepClone(m.currentState) ELSE Null

canUndo(m) == Len(m.history) > 0

canRedo(m) == Len(m.redoStack) > 0

\* Mutant of managerUndo: the current state is not kept for redo.
managerUndo_DropCurrent(m) ==
    IF ~canUndo(m) \/ m.currentState = Null
    THEN [ok |-> FALSE, m |-> m]
    ELSE [ok |-> TRUE,
          m |-> [ currentState |-> Last(m.history),
                  history |-> Front(m.history),
                  redoStack |-> m.redoStack ]]

\* undo(): ok is the returned boolean, m the manager afterwards
managerUndo(m) ==
    IF ~canUndo(m) \/ m.currentState = Null
    THEN [ok |-> FALSE, m |-> m]
    ELSE [ok |-> TRUE,
          m |-> [ currentState |-> Last(m.history),
                  history |-> Front(m.history),
                  redoStack |-> Append(m.redoStack, deepClone(m.currentState)) ]]

\* Mutant of managerRedo: the current state is dropped, not pushed.
managerRedo_DropCurrent(m) ==
    IF ~canRedo(m)
    THEN [ok |-> FALSE, m |-> m]
    ELSE [ok |-> TRUE,
          m |-> [ currentState |-> Last(m.redoStack),
                  history |-> m.history,
                  redoStack |-> Front(m.redoStack) ]]

managerRedo(m) ==
    IF ~canRedo(m)
    THEN [ok |-> FALSE, m |-> m]
    ELSE [ok |-> TRUE,
          m |-> [ currentState |-> Last(m.redoStack),
                  history |-> IF m.currentState # Null
                              THEN Append(m.history, deepClone(m.currentState))
                              ELSE m.history,
                  redoStack |-> Front(m.redoStack) ]]

\* Mutant of managerReset: the history survives the reset.
managerReset_KeepHistory(m) ==
    [currentState |-> Null, history |-> m.history, redoStack |-> <<>>]

managerReset(m) ==
    [currentState |-> Null, history |-> <<>>, redoStack |-> <<>>]

----------------------------------------------------------------------------
(* Turn order *)

\* TurnOrderStrategies.sequential().getNextPlayer
sequentialNext(currentPlayerId, playerIds) ==
    playerIds[((IndexOf(playerIds, currentPlayerId) + 1) % Len(playerIds)) + 1]

\* The strategy objects: sequential() has no state, custom(sequence) keeps
\* a cursor into its sequence.
SequentialStrategy == [kind |-> "sequential"]
customStrategy(sequence) ==
    [kind |-> "custom", sequence |-> sequence, currentIndex |-> 0]

\* strategy.getNextPlayer: the id returned and the strategy afterwards
strategyNext(strategy, currentPlayerId, playerIds) ==
    IF strategy.kind = "sequential"
    THEN [id |-> sequentialNext(currentPlayerId, playerIds),
          strategy |-> strategy]
    ELSE [id |-> strategy.sequence[strategy.currentIndex + 1],
          strategy |-> [strategy EXCEPT
                          !.currentIndex = (@ + 1) % Len(strategy.sequence)]]

\* strategy.reset, where the strategy defines it
strategyReset(strategy) ==
    IF strategy.kind = "custom"
    THEN [strategy EXCEPT !.currentIndex = 0]
    ELSE strategy

\* Mutant of getNextPlayer: an id that is not a player's is let through.
getNextPlayer_NoCheck(ps, idx, strategy) ==
    LET n == strategyNext(strategy, ps[idx + 1], ps)
    IN [id |-> n.id, index |-> IndexOf(ps, n.id), strategy |-> n.strategy,
        threw |-> "none"]

\* TurnManager.getNextPlayer: the id returned, the index and the strategy
\* afterwards, and the error thrown (after the index was overwritten) when
\* the id is not a player's.
getNextPlayer(ps, idx, strategy) ==
    LET n == strategyNext(strategy, ps[idx + 1], ps)
    IN [id |-> n.id, index |-> IndexOf(ps, n.id), strategy |-> n.strategy,
        threw |-> IF IndexOf(ps, n.id) = -1
                  THEN "Invalid next player ID"
                  ELSE "none"]

----------------------------------------------------------------------------
(* Events, as recorded in the trace *)

gameStarted(state, cfg) ==
    [type |-> "gameStarted", players |-> cfg.players]
turnStarted(playerId, turnNumber) ==
    [type |-> "turnStarted", playerId |-> playerId, turnNumber |-> turnNumber]
turnEnded(playerId, turnNumber) ==
    [type |-> "turnEnded", playerId |-> playerId, turnNumber |-> turnNumber]
\* current: what getState() returns to a handler of this event
actionExecuted(action, state, current) ==
    [type |-> "actionExecuted", action |-> action, current |-> current]
sideEffect(effect) ==
    [type |-> "sideEffect", effect |-> effect]
gameEnded(winnerId, reason) ==
    [type |-> "gameEnded", winnerId |-> winnerId, reason |-> reason]
actionUndone == [type |-> "actionUndone"]
actionRedone == [type |-> "actionRedone"]
gameReset == [type |-> "gameReset"]

EventType(i) == events[i].type

----------------------------------------------------------------------------
(* The last call, as the caller sees it *)

Threw(op, message) == [op |-> op, threw |-> message]
Returned(op, value) == [op |-> op, threw |-> "none", value |-> value]
NotInitialized == "Game not initialized"

\* The clock never runs backwards; a call that reads it may find it advanced.
Times == { t \in now..(now + 1) : t <= MaxClock }

----------------------------------------------------------------------------
(* GameController *)

\* new Map(): no AI is registered for any player
NoAIs == [playerId \in {} |-> Null]

\* no payload is being cloned
NoHeap == [objects |-> <<>>, root |-> 0, clone |-> 0, native |-> FALSE]

\* new Map(): no checkpoint
NoCheckpoints == [checkpointId \in {} |-> Null]

\* new EventBus(): no Set of handlers has been made, no event has one, no
\* unsubscribe function has been handed out, nothing has been called
NewEventBus ==
    [sets |-> <<>>, listeners |-> [event \in {} |-> 0], closures |-> <<>>,
     log |-> <<>>]

Init ==
    /\ config = Null
    /\ currentState = Null
    /\ history = <<>>
    /\ redoStack = <<>>
    /\ players = <<>>
    /\ currentPlayerIndex = 0
    /\ events = <<>>
    /\ now = 0
    /\ ret = [op |-> "new", threw |-> "none"]
    /\ turnOrder = SequentialStrategy
    /\ prev = [currentState |-> Null, history |-> <<>>, redoStack |-> <<>>]
    /\ search = [kind |-> "none"]
    /\ aiPlayers = NoAIs
    /\ bus = NewEventBus
    /\ checkpoints = NoCheckpoints
    /\ heap = NoHeap

\* Every call leaves the manager's fields of before it in prev; no call of
\* the controller touches an AI's search, and those modelled with it leave
\* the AI registry and the event bus's subscriptions alone.
Called ==
    /\ prev' = Manager
    /\ UNCHANGED <<search, aiPlayers, bus,
                   checkpoints, heap>>

SetManager(m) ==
    /\ currentState' = m.currentState
    /\ history' = m.history
    /\ redoStack' = m.redoStack

\* Mutant of validateConfig: duplicate ids are not looked for.
validateConfig_CountOnly(cfg) ==
    IF "players" \notin DOMAIN cfg \/ Len(cfg.players) < 2
    THEN "At least 2 players are required"
    ELSE "none"

\* validateConfig: the error it throws, "none" if the config is accepted
validateConfig(cfg) ==
    IF "players" \notin DOMAIN cfg \/ Len(cfg.players) < 2
    THEN "At least 2 players are required"
    ELSE IF Cardinality(Ids(cfg.players)) # Len(cfg.players)
    THEN "Player IDs must be unique"
    ELSE "none"

Initialize(cfg) ==
    /\ Len(events) < MaxEvents
    /\ Called
    /\ IF validateConfig(cfg) # "none"
       THEN /\ ret' = [op |-> "initialize", config |-> cfg,
                       threw |-> validateConfig(cfg)]
            /\ UNCHANGED <<config, currentState, history, redoStack, players,
                           currentPlayerIndex, events, now, turnOrder>>
       ELSE \E time \in Times :
            LET initialState == createInitialState(cfg, time)
            IN /\ now' = time
               /\ config' = cfg
               /\ SetManager(setState(Manager, initialState))
               /\ players' = cfg.players
               /\ currentPlayerIndex' = 0
               /\ turnOrder' = strategyReset(turnOrder)
               /\ events' = events \o
                     << gameStarted(initialState, cfg),
                        turnStarted(initialState.turnInfo.currentPlayerId,
                                    initialState.turnInfo.turnNumber) >>
               /\ ret' = [op |-> "initialize", config |-> cfg, threw |-> "none"]

\* Mutant of GetState: null is handed out instead of the throw.
GetState_ReturnsNull ==
    /\ ret' = Returned("getState", getCurrentState(Manager))
    /\ Called
    /\ UNCHANGED <<config, currentState, history, redoStack, players,
                   currentPlayerIndex, events, now, turnOrder>>

GetState ==
    /\ IF getCurrentState(Manager) = Null
       THEN ret' = Threw("getState", NotInitialized)
       ELSE ret' = Returned("getState", getCurrentState(Manager))
    /\ Called
    /\ UNCHANGED <<config, currentState, history, redoStack, players,
                   currentPlayerIndex, events, now, turnOrder>>

\* Mutant of handleGameEnd: the terminal state overwrites the current state
\* instead of being committed.
handleGameEnd_Overwrite(m, winnerId, reason) ==
    LET state == getCurrentState(m)
        endState == [state EXCEPT !.isComplete = TRUE,
                                  !.winnerId = winnerId,
                                  !.phase = "completed"]
    IN [m |-> [m EXCEPT !.currentState = endState],
        emitted |-> <<gameEnded(winnerId, reason)>>]

\* handleGameEnd on the manager m: the manager and the event afterwards
\* Mutant of handleGameEnd: the end state keeps the phase it had.
handleGameEnd_KeepPhase(m, winnerId, reason) ==
    LET state == getCurrentState(m)
        endState == [state EXCEPT !.isComplete = TRUE,
                                  !.winnerId = winnerId]
    IN [m |-> setState(m, endState), emitted |-> <<gameEnded(winnerId, reason)>>]

handleGameEnd(m, winnerId, reason) ==
    LET state == getCurrentState(m)
        endState == [state EXCEPT !.isComplete = TRUE,
                                  !.winnerId = winnerId,
                                  !.phase = "completed"]
    IN [m |-> setState(m, endState), emitted |-> <<gameEnded(winnerId, reason)>>]

\* Mutant of validationError: the reason given by the rules is dropped.
validationError_Default(validation) == "Invalid action"

\* The error of a rejected action: validation.reason || 'Invalid action'
validationError(validation) ==
    IF validation.reason \notin {Undefined, ""}
    THEN validation.reason
    ELSE "Invalid action"

\* Mutant of commitResult: actionExecuted is emitted whatever the result.
commitResult_EmitAlways(m, action, result) ==
    IF result.success /\ result.newState # NoState
    THEN LET m1 == setState(m, result.newState)
             ev1 == <<actionExecuted(action, result.newState,
                                     getCurrentState(m1))>> \o
                    [i \in 1..Len(result.sideEffects) |->
                        sideEffect(result.sideEffects[i])]
             endCheck == checkEndCondition(result.newState)
         IN IF endCheck.isEnded
            THEN LET e == handleGameEnd(m1, endCheck.winnerId, endCheck.reason)
                 IN [m |-> e.m, emitted |-> ev1 \o e.emitted]
            ELSE [m |-> m1, emitted |-> ev1]
    ELSE [m |-> m, emitted |-> <<actionExecuted(action, result.newState,
                                                getCurrentState(m))>>]

\* Mutant of commitResult: the side effects are emitted before
\* actionExecuted.
commitResult_EffectsFirst(m, action, result) ==
    IF result.success /\ result.newState # NoState
    THEN LET m1 == setState(m, result.newState)
             ev1 == [i \in 1..Len(result.sideEffects) |->
                        sideEffect(result.sideEffects[i])] \o
                    <<actionExecuted(action, result.newState,
                                     getCurrentState(m1))>>
             endCheck == checkEndCondition(result.newState)
         IN IF endCheck.isEnded
            THEN LET e == handleGameEnd(m1, endCheck.winnerId, endCheck.reason)
                 IN [m |-> e.m, emitted |-> ev1 \o e.emitted]
            ELSE [m |-> m1, emitted |-> ev1]
    ELSE [m |-> m, emitted |-> <<>>]

\* The part of executeAction after the rules produced result: the manager
\* and the emitted events afterwards.
commitResult(m, action, result) ==
    IF result.success /\ result.newState # NoState
    THEN LET m1 == setState(m, result.newState)
             ev1 == <<actionExecuted(action, result.newState,
                                     getCurrentState(m1))>> \o
                    [i \in 1..Len(result.sideEffects) |->
                        sideEffect(result.sideEffects[i])]
             endCheck == checkEndCondition(result.newState)
         IN IF endCheck.isEnded
            THEN LET e == handleGameEnd(m1, endCheck.winnerId, endCheck.reason)
                 IN [m |-> e.m, emitted |-> ev1 \o e.emitted]
            ELSE [m |-> m1, emitted |-> ev1]
    ELSE [m |-> m, emitted |-> <<>>]

ExecuteAction(action) ==
    /\ Len(events) < MaxEvents
    /\ (action.type = "move" /\ currentState # Null)
          => currentState.gameData.score < MaxScore
    /\ IF getCurrentState(Manager) = Null
       THEN /\ ret' = [op |-> "executeAction", action |-> action,
                       threw |-> NotInitialized]
            /\ UNCHANGED <<currentState, history, redoStack, events>>
       ELSE LET state == getCurrentState(Manager)
                validation == validateAction(action, state)
            IN IF ~validation.isValid
               THEN /\ ret' = [op |-> "executeAction", action |-> action,
                               threw |-> "none",
                               value |-> [success |-> FALSE,
                                          error |-> validationError(validation)]]
                    /\ UNCHANGED <<currentState, history, redoStack, events>>
               ELSE LET result == rulesExecuteAction(action, state)
                        c == commitResult(Manager, action, result)
                    IN /\ SetManager(c.m)
                       /\ events' = events \o c.emitted
                       /\ ret' = [op |-> "executeAction", action |-> action,
                                  threw |-> "none", value |-> result]
    /\ Called
    /\ UNCHANGED <<config, players, currentPlayerIndex, now, turnOrder>>

\* Mutant of endTurnSkipped: the completion check is missing.
endTurnSkipped_Never(state) == FALSE

\* endTurn's early return: nothing is done on a complete game
endTurnSkipped(state) == state.isComplete

\* Mutant of nextTurnState: the move counter is carried into the new turn.
nextTurnState_KeepMoves(state, nextPlayerId, time) ==
    [state EXCEPT !.turnInfo.currentPlayerId = nextPlayerId,
                  !.turnInfo.turnNumber = state.turnInfo.turnNumber + 1,
                  !.turnInfo.timeStarted = time]

\* The state endTurn commits: the current state with the new turn info
nextTurnState(state, nextPlayerId, time) ==
    [state EXCEPT !.turnInfo.currentPlayerId = nextPlayerId,
                  !.turnInfo.turnNumber = state.turnInfo.turnNumber + 1,
                  !.turnInfo.movesThisTurn = 0,
                  !.turnInfo.timeStarted = time]

EndTurn ==
    /\ Len(events) < MaxEvents
    /\ currentState # Null => currentState.turnInfo.turnNumber < MaxTurn
    /\ Called
    /\ IF getCurrentState(Manager) = Null
       THEN /\ ret' = Threw("endTurn", NotInitialized)
            /\ UNCHANGED <<currentState, history, redoStack, players,
                           currentPlayerIndex, events, now, turnOrder>>
       ELSE LET state == getCurrentState(Manager)
            IN IF endTurnSkipped(state)
               THEN /\ ret' = Returned("endTurn", Undefined)
                    /\ UNCHANGED <<currentState, history, redoStack, players,
                                   currentPlayerIndex, events, now, turnOrder>>
               ELSE IF Len(players) = 0
               THEN /\ ret' = Threw("endTurn", "Turn manager not initialized")
                    /\ UNCHANGED <<currentState, history, redoStack, players,
                                   currentPlayerIndex, events, now, turnOrder>>
               ELSE IF currentPlayerIndex = -1
               THEN \* this.players[-1] is undefined: reading its id throws
                    /\ ret' = Threw("endTurn", "TypeError")
                    /\ UNCHANGED <<currentState, history, redoStack, players,
                                   currentPlayerIndex, events, now, turnOrder>>
               ELSE LET next == getNextPlayer(players, currentPlayerIndex,
                                              turnOrder)
                    IN IF next.threw # "none"
                       THEN /\ ret' = Threw("endTurn", next.threw)
                            /\ currentPlayerIndex' = next.index
                            /\ turnOrder' = next.strategy
                            /\ UNCHANGED <<currentState, history, redoStack,
                                           players, events, now>>
                       ELSE \E time \in Times :
                            LET currentPlayerId == state.turnInfo.currentPlayerId
                                currentTurnNumber == state.turnInfo.turnNumber
                                newState == nextTurnState(state, next.id, time)
                            IN /\ now' = time
                               /\ currentPlayerIndex' = next.index
                               /\ turnOrder' = next.strategy
                               /\ SetManager(setState(Manager, newState))
                               /\ events' = events \o
                                     << turnEnded(currentPlayerId,
                                                  currentTurnNumber),
                                        turnStarted(next.id,
                                                    currentTurnNumber + 1) >>
                               /\ ret' = Returned("endTurn", Undefined)
                               /\ UNCHANGED players
    /\ UNCHANGED config

Undo ==
    /\ Len(events) < MaxEvents
    /\ LET r == managerUndo(Manager)
       IN /\ SetManager(r.m)
          /\ events' = IF r.ok THEN Append(events, actionUndone) ELSE events
          /\ ret' = Returned("undo", r.ok)
    /\ Called
    /\ UNCHANGED <<config, players, currentPlayerIndex, now, turnOrder>>

Redo ==
    /\ Len(events) < MaxEvents
    /\ LET r == managerRedo(Manager)
       IN /\ SetManager(r.m)
          /\ events' = IF r.ok THEN Append(events, actionRedone) ELSE events
          /\ ret' = Returned("redo", r.ok)
    /\ Called
    /\ UNCHANGED <<config, players, currentPlayerIndex, now, turnOrder>>

Reset ==
    /\ Len(events) < MaxEvents
    /\ SetManager(managerReset(Manager))
    /\ players' = <<>>
    /\ currentPlayerIndex' = 0
    /\ config' = Null
    /\ turnOrder' = strategyReset(turnOrder)
    /\ events' = Append(events, gameReset)
    /\ ret' = Returned("reset", Undefined)
    /\ prev' = Manager
    /\ checkpoints' = NoCheckpoints
    /\ UNCHANGED <<now, search, aiPlayers, bus, heap>>

----------------------------------------------------------------------------
(* The GameStateManager used on its own: setState, undo, redo, reset and    *)
(* the checkpoints, which the controller does not call.  A checkpoint id   *)
(* is 'checkpoint_' and the reading of the clock.  prev follows the calls  *)
(* of the controller only.                                                  *)

\* restoreCheckpoint pushes without cutting the history and keeps the redo
\* stack; the model stops pushing on a stack that is this much over
\* maxHistorySize
MaxOverflow == 1

\* states a caller of setState may pass
ManagerStates ==
    { [createInitialState([players |-> <<"p1", "p2">>], 0)
          EXCEPT !.gameData.score = score] : score \in 0..1 }

\* this.checkpoints.set(checkpointId, checkpoint)
mapSet(map, key, value) ==
    [k \in DOMAIN map \cup {key} |-> IF k = key THEN value ELSE map[k]]

\* this.checkpoints.get(checkpointId), null for undefined
mapGet(map, key) == IF key \in DOMAIN map THEN map[key] ELSE Null

\* restoreCheckpoint on the manager m: the manager afterwards and the value
\* returned
restoreCheckpoint(m, saved, checkpointId) ==
    LET checkpoint == mapGet(saved, checkpointId)
    IN IF checkpoint = Null
       THEN [m |-> m, ok |-> FALSE]
       ELSE [m |-> [currentState |-> deepClone(checkpoint),
                    history |-> IF m.currentState # Null
                                THEN Append(m.history,
                                            deepClone(m.currentState))
                                ELSE m.history,
                    redoStack |-> m.redoStack],
             ok |-> TRUE]

ManagerSetState(state) ==
    /\ SetManager(setState(Manager, state))
    /\ ret' = Returned("setState", Undefined)
    /\ UNCHANGED <<prev, search, aiPlayers, bus, checkpoints, heap>>
    /\ UNCHANGED <<config, players, currentPlayerIndex, events, now,
                   turnOrder>>

ManagerUndo ==
    /\ Len(redoStack) < maxHistorySize + MaxOverflow
    /\ SetManager(managerUndo(Manager).m)
    /\ ret' = Returned("undo", managerUndo(Manager).ok)
    /\ UNCHANGED <<prev, search, aiPlayers, bus, checkpoints, heap>>
    /\ UNCHANGED <<config, players, currentPlayerIndex, events, now,
                   turnOrder>>

ManagerRedo ==
    /\ Len(history) < maxHistorySize + MaxOverflow
    /\ SetManager(managerRedo(Manager).m)
    /\ ret' = Returned("redo", managerRedo(Manager).ok)
    /\ UNCHANGED <<prev, search, aiPlayers, bus, checkpoints, heap>>
    /\ UNCHANGED <<config, players, currentPlayerIndex, events, now,
                   turnOrder>>

CreateCheckpoint ==
    \E time \in Times :
       /\ now' = time
       /\ checkpoints' = mapSet(checkpoints, time,
                                getCurrentState(Manager))
       /\ ret' = Returned("createCheckpoint", time)
       /\ UNCHANGED <<config, currentState, history, redoStack, players,
                      currentPlayerIndex, events, turnOrder, prev, search,
                      aiPlayers, bus, heap>>

RestoreCheckpoint(checkpointId) ==
    /\ Len(history) < maxHistorySize + MaxOverflow
    /\ LET r == restoreCheckpoint(Manager, checkpoints, checkpointId)
       IN /\ SetManager(r.m)
          /\ ret' = [op |-> "restoreCheckpoint",
                     checkpointId |-> checkpointId,
                     threw |-> "none", value |-> r.ok]
    /\ UNCHANGED <<prev, search, aiPlayers, bus, checkpoints, heap>>
    /\ UNCHANGED <<config, players, currentPlayerIndex, events, now,
                   turnOrder>>

ManagerReset ==
    /\ SetManager(managerReset(Manager))
    /\ checkpoints' = NoCheckpoints
    /\ ret' = Returned("reset", Undefined)
    /\ UNCHANGED <<config, players, currentPlayerIndex, events, now,
                   turnOrder, prev, search, aiPlayers, bus, heap>>

NextManager ==
    \/ \E state \in ManagerStates : ManagerSetState(state)
    \/ ManagerUndo
    \/ ManagerRedo
    \/ CreateCheckpoint
    \/ \E checkpointId \in 0..MaxClock : RestoreCheckpoint(checkpointId)
    \/ ManagerReset

SpecManager == Init /\ [][NextManager]_vars

(***************************************************************************)
(* deepClone on a payload of objects.  The payload is a heap: objects[k]   *)
(* is the object with identity k, a value is Primitive or the identity of  *)
(* an object, and props are the values of an object's own properties in    *)
(* their order.  A clone's objects are appended to the same heap, so that  *)
(* an object the clone shares with the original is one identity.           *)
(***************************************************************************)
MaxObjects == 3

Primitive == 0

\* a plain object of two properties, an array of one element, a Date
ObjectsOver(values) ==
    [kind : {"object"}, props : [1..2 -> values]]
       \cup [kind : {"array"}, props : [1..1 -> values]]
       \cup {[kind |-> "date", props |-> <<>>]}

\* new WeakMap()
NewWeakMap == [obj \in {} |-> Primitive]

\* manualDeepClone(obj, visited) on the heap objects: the heap and the
\* visited map afterwards, and the value returned
RECURSIVE manualDeepClone(_, _, _), cloneProps(_, _, _, _, _)
manualDeepClone(objects, visited, obj) ==
    IF obj = Primitive
    THEN [objects |-> objects, visited |-> visited, value |-> obj]
    ELSE IF obj \in DOMAIN visited
    THEN [objects |-> objects, visited |-> visited, value |-> visited[obj]]
    ELSE IF objects[obj].kind = "date"
    THEN [objects |-> Append(objects, [kind |-> "date", props |-> <<>>]),
          visited |-> visited,
          value |-> Len(objects) + 1]
    ELSE LET cloned == Len(objects) + 1
         IN cloneProps(Append(objects, [kind |-> objects[obj].kind,
                                        props |-> <<>>]),
                       mapSet(visited, obj, cloned), obj, cloned, 1)

\* the loop over the elements or own properties of obj, from the i-th on
cloneProps(objects, visited, obj, cloned, i) ==
    IF i > Len(objects[obj].props)
    THEN [objects |-> objects, visited |-> visited, value |-> cloned]
    ELSE LET r == manualDeepClone(objects, visited, objects[obj].props[i])
         IN cloneProps([r.objects EXCEPT
                           ![cloned].props = Append(@, r.value)],
                       r.visited, obj, cloned, i + 1)

\* structuredClone(obj) of the platform: every object is copied once, and
\* a reference to an object becomes a reference to its copy
structuredClone(objects, obj) ==
    LET copyOf(value) == IF value = Primitive THEN Primitive
                         ELSE value + Len(objects)
    IN [objects |-> objects \o
                    [k \in 1..Len(objects) |->
                       [kind |-> objects[k].kind,
                        props |-> [i \in DOMAIN objects[k].props |->
                                     copyOf(objects[k].props[i])]]],
        value |-> copyOf(obj)]

\* deepClone(obj): structuredClone where the platform has it, and
\* manualDeepClone otherwise
heapDeepClone(objects, obj, native) ==
    IF native
    THEN structuredClone(objects, obj)
    ELSE LET r == manualDeepClone(objects, NewWeakMap, obj)
         IN [objects |-> r.objects, value |-> r.value]

\* deepClone(state) of a payload not cloned yet
DeepClone ==
    /\ heap.root # Primitive
    /\ heap.clone = Primitive
    /\ \E native \in BOOLEAN :
          LET r == heapDeepClone(heap.objects, heap.root, native)
          IN heap' = [objects |-> r.objects, root |-> heap.root,
                      clone |-> r.value, native |-> native]
    /\ UNCHANGED <<config, currentState, history, redoStack, players,
                   currentPlayerIndex, events, now, ret, turnOrder, prev,
                   search, aiPlayers, bus, checkpoints>>

\* the payloads: a plain object at the root, whose references may form
\* cycles and may share objects
Payloads ==
    { [objects |-> objects, root |-> 1, clone |-> Primitive,
       native |-> FALSE] :
      objects \in { o \in [1..MaxObjects -> ObjectsOver(0..MaxObjects)] :
                       o[1].kind = "object" } }

InitClone ==
    /\ config = Null
    /\ currentState = Null
    /\ history = <<>>
    /\ redoStack = <<>>
    /\ players = <<>>
    /\ currentPlayerIndex = 0
    /\ events = <<>>
    /\ now = 0
    /\ ret = [op |-> "new", threw |-> "none"]
    /\ turnOrder = SequentialStrategy
    /\ prev = [currentState |-> Null, history |-> <<>>, redoStack |-> <<>>]
    /\ search = [kind |-> "none"]
    /\ aiPlayers = NoAIs
    /\ bus = NewEventBus
    /\ checkpoints = NoCheckpoints
    /\ heap \in Payloads

NextClone == DeepClone

SpecClone == InitClone /\ [][NextClone]_vars

Next ==
    \/ \E cfg \in Configs : Initialize(cfg)
    \/ GetState
    \/ \E action \in Actions : ExecuteAction(action)
    \/ EndTurn
    \/ Undo
    \/ Redo
    \/ Reset

Spec == Init /\ [][Next]_vars

----------------------------------------------------------------------------
(* Properties of the action / turn protocol.  A step of the controller is  *)
(* one call; ret' describes the call the step made, the unprimed variables *)
(* the controller before it.                                               *)

Initialized == currentState # Null

ExecutedAction == ret'.op = "executeAction"

\* the call was an executeAction on an initialized controller whose action
\* passed / did not pass rules.validateAction
ValidAction ==
    ExecutedAction /\ Initialized /\ validateAction(ret'.action, currentState).isValid
InvalidAction ==
    ExecutedAction /\ Initialized /\ ~validateAction(ret'.action, currentState).isValid

\* what the rules answer to the action of the call
RulesResult == rulesExecuteAction(ret'.action, currentState)

\* the call was an executeAction that succeeded with a new state
SuccessfulAction ==
    ValidAction /\ RulesResult.success /\ RulesResult.newState # NoState

\* ... and that new state ends the game
EndingAction == SuccessfulAction /\ checkEndCondition(RulesResult.newState).isEnded

\* the call was an endTurn on an initialized controller, game not complete
TurnEnded == ret'.op = "endTurn" /\ Initialized /\ ~currentState.isComplete

StateUnchanged ==
    /\ currentState' = currentState
    /\ history' = history
    /\ redoStack' = redoStack

CountType(evs, type) == Cardinality({ i \in 1..Len(evs) : evs[i].type = type })

\* C1: when rules.validateAction reports the action invalid, executeAction
\* returns success=false with the validation reason as error (the default
\* 'Invalid action' when the rules give none), and current state, history,
\* redo stack and event trace are as before the call.
C1_InvalidActionRejected ==
    [][ InvalidAction =>
          /\ ret'.threw = "none"
          /\ ret'.value.success = FALSE
          /\ LET reason == validateAction(ret'.action, currentState).reason
             IN ret'.value.error =
                  IF reason # Undefined THEN reason ELSE "Invalid action"
          /\ StateUnchanged
          /\ events' = events ]_vars

\* A wrong-player action was rejected on a controller that has a history
\* and has emitted events.
C1_Witness ==
    /\ ret.op = "executeAction"
    /\ ret.threw = "none"
    /\ ret.value.success = FALSE
    /\ ret.value.error = "Not your turn"
    /\ Len(history) > 0
    /\ Len(events) > 2

\* C2 as stated: every successful executeAction or endTurn leaves the
\* state that was current before the call as the newest history entry, the
\* new state as current, and an empty redo stack.
C2_EverySuccessIsOneCommit ==
    [][ (SuccessfulAction \/ TurnEnded) =>
          /\ Len(history') > 0
          /\ history'[Len(history')] = currentState
          /\ SuccessfulAction => currentState' = RulesResult.newState
          /\ redoStack' = <<>> ]_vars

\* C2, amended: a successful executeAction whose new state does not end the
\* game, and an endTurn on a game that is not complete, is a commit (prior
\* state newest in history, new state current); after every successful
\* executeAction or endTurn the redo stack is empty, so redo() returns false.
C2_SuccessCommits ==
    [][ /\ ((SuccessfulAction /\ ~EndingAction) \/ TurnEnded) =>
             /\ Len(history') > 0
             /\ history'[Len(history')] = currentState
             /\ SuccessfulAction => currentState' = RulesResult.newState
             /\ TurnEnded => currentState' # currentState
        /\ (SuccessfulAction \/ TurnEnded) => redoStack' = <<>>
        /\ (ret'.op = "redo" /\ redoStack = <<>>) => ret'.value = FALSE ]_vars

\* An action was committed right after an undo, that is, while the redo
\* stack was not empty.
C2_Witness ==
    /\ ret.op = "executeAction"
    /\ Len(events) >= 3
    /\ events[Len(events) - 2].type = "actionUndone"
    /\ events[Len(events) - 1].type = "actionExecuted"
    /\ redoStack = <<>>
    /\ Len(history) > 0

\* C3: when the new state of a successful executeAction ends the game, the
\* current state afterwards is that new state with isComplete=true,
\* phase=COMPLETED and the reported winner; the new state itself is the
\* newest history entry, on top of the state before the call (two more
\* entries when the bound allows), and gameEnded is emitted once, last.
C3_GameEndCommitsTerminalState ==
    [][ EndingAction =>
          LET newState == RulesResult.newState
              endCheck == checkEndCondition(newState)
          IN /\ currentState' = [newState EXCEPT !.isComplete = TRUE,
                                                 !.phase = "completed",
                                                 !.winnerId = endCheck.winnerId]
             /\ history'[Len(history')] = newState
             /\ Len(history) + 2 <= maxHistorySize =>
                   history' = history \o <<currentState, newState>>
             /\ events'[Len(events')] =
                   gameEnded(endCheck.winnerId, endCheck.reason)
             /\ CountType(events', "gameEnded") =
                   CountType(events, "gameEnded") + 1 ]_vars

\* A winning action ended a game that had one earlier commit.
C3_Witness ==
    /\ ret.op = "executeAction"
    /\ currentState # Null
    /\ currentState.isComplete
    /\ currentState.winnerId = "p2"
    /\ Len(history) = 3
    /\ events[Len(events)].type = "gameEnded"

\* C4: when validation passes but rules.executeAction reports
\* success=false, executeAction returns that result as it is, and current
\* state, history, redo stack and event trace are unchanged.
C4_RulesFailureCommitsNothing ==
    [][ (ValidAction /\ ~RulesResult.success) =>
          /\ ret'.threw = "none"
          /\ ret'.value = RulesResult
          /\ StateUnchanged
          /\ events' = events ]_vars

\* The rules failed an action of the player to move, after earlier commits.
C4_Witness ==
    /\ ret.op = "executeAction"
    /\ ret.threw = "none"
    /\ ret.value.success = FALSE
    /\ ret.value.error = "Player not found"
    /\ Len(history) > 0

\* C5: executeAction and getState on a controller that is not initialized
\* throw 'Game not initialized' and leave the controller as it was.
C5_NotInitializedThrows ==
    [][ (ret'.op \in {"executeAction", "getState"} /\ ~Initialized) =>
          /\ ret'.threw = "Game not initialized"
          /\ currentState' = Null
          /\ UNCHANGED <<config, history, redoStack, players,
                         currentPlayerIndex, events>> ]_vars

\* getState threw on a controller that was reset after a game.
C5_Witness ==
    /\ ret.op = "getState"
    /\ ret.threw = "Game not initialized"
    /\ currentState = Null
    /\ Len(events) > 0

\* the config of the call lacks two players or repeats a player id
BadConfig(cfg) ==
    \/ "players" \notin DOMAIN cfg
    \/ Len(cfg.players) < 2
    \/ \E i, j \in 1..Len(cfg.players) : i # j /\ cfg.players[i] = cfg.players[j]

\* C6: initialize(config) with fewer than 2 players or with duplicate
\* player ids throws before anything is committed: config, current state,
\* history, redo stack and turn order are untouched and no event (so
\* neither gameStarted nor turnStarted) is emitted.
C6_BadConfigRejected ==
    [][ (ret'.op = "initialize" /\ BadConfig(ret'.config)) =>
          /\ ret'.threw \in {"At least 2 players are required",
                              "Player IDs must be unique"}
          /\ StateUnchanged
          /\ UNCHANGED <<config, players, currentPlayerIndex, events>> ]_vars

\* A config with a duplicate id was rejected; one with a single player
\* or none is rejected in the same way.
C6_Witness ==
    /\ ret.op = "initialize"
    /\ ret.threw = "Player IDs must be unique"
    /\ ret.config.players = <<"p1", "p1">>
    /\ currentState = Null

\* C7: every endTurn() on a game that is not complete increases
\* turnInfo.turnNumber by exactly 1 and sets movesThisTurn to 0; an
\* executeAction leaves turnNumber as it was (the rules of the model do
\* not touch it).
C7_TurnNumberStepsByOne ==
    [][ /\ TurnEnded =>
             /\ currentState'.turnInfo.turnNumber =
                   currentState.turnInfo.turnNumber + 1
             /\ currentState'.turnInfo.movesThisTurn = 0
        /\ (ExecutedAction /\ Initialized) =>
             currentState'.turnInfo.turnNumber =
               currentState.turnInfo.turnNumber ]_vars

\* A turn was ended right after a move, that is, with movesThisTurn > 0.
C7_Witness ==
    /\ ret.op = "endTurn"
    /\ Len(events) >= 4
    /\ events[Len(events) - 2].type = "sideEffect"
    /\ events[Len(events) - 1].type = "turnEnded"
    /\ currentState.turnInfo.turnNumber = 2
    /\ currentState.turnInfo.movesThisTurn = 0

\* C8: for every endTurn() on a game that is not complete, in any
\* reachable state (after undo() and redo() too), the new currentPlayerId
\* is the sequential strategy's answer for the currentPlayerId before the
\* call over the full player-id list, its cyclic successor.
C8_NextPlayerFollowsCurrentPlayerId ==
    [][ TurnEnded =>
          currentState'.turnInfo.currentPlayerId =
            sequentialNext(currentState.turnInfo.currentPlayerId,
                           currentState.players) ]_vars

\* C9: endTurn() on a game whose current state has isComplete=true
\* changes nothing: current state, history, redo stack and the turn
\* manager's position are as before and no event is emitted.
C9_EndTurnOnCompleteGame ==
    [][ (ret'.op = "endTurn" /\ Initialized /\ currentState.isComplete) =>
          /\ ret'.threw = "none"
          /\ StateUnchanged
          /\ UNCHANGED <<config, players, currentPlayerIndex, events>> ]_vars

\* endTurn was called on a game that an action had ended.
C9_Witness ==
    /\ ret.op = "endTurn"
    /\ currentState # Null
    /\ currentState.isComplete
    /\ events[Len(events)].type = "gameEnded"

\* C10: a successful undo pushes the current state on the redo stack and
\* makes the newest history entry current; a successful redo pushes the
\* current state on the history and makes the newest redo entry current;
\* each emits its own event exactly once; with the relevant stack empty
\* the call returns false, changes nothing and emits nothing.
C10_UndoRedoExchange ==
    [][ /\ ret'.op = "undo" =>
             IF Len(history) > 0 /\ Initialized
             THEN /\ ret'.value = TRUE
                  /\ currentState' = history[Len(history)]
                  /\ history' = SubSeq(history, 1, Len(history) - 1)
                  /\ redoStack' = redoStack \o <<currentState>>
                  /\ events' = events \o <<[type |-> "actionUndone"]>>
             ELSE /\ ret'.value = FALSE
                  /\ StateUnchanged
                  /\ events' = events
        /\ ret'.op = "redo" =>
             IF Len(redoStack) > 0
             THEN /\ ret'.value = TRUE
                  /\ currentState' = redoStack[Len(redoStack)]
                  /\ redoStack' = SubSeq(redoStack, 1, Len(redoStack) - 1)
                  /\ history' = history \o <<currentState>>
                  /\ events' = events \o <<[type |-> "actionRedone"]>>
             ELSE /\ ret'.value = FALSE
                  /\ StateUnchanged
                  /\ events' = events ]_vars

\* A redo succeeded between two other entries: after two undos, with a
\* state left on the redo stack and the history not empty.
C10_Witness ==
    /\ ret.op = "redo"
    /\ ret.value = TRUE
    /\ Len(redoStack) > 0
    /\ Len(history) > 0
    /\ events[Len(events)].type = "actionRedone"

----------------------------------------------------------------------------
(* Undo / redo and the history bound.  prev holds the manager's fields of  *)
(* before the last call, so that two consecutive calls can be related.     *)

\* the last call was an undo() that returned true
UndoSucceeded == ret.op = "undo" /\ ret.value = TRUE

\* the last call was an executeAction that succeeded with a new state
ActionSucceeded ==
    /\ ret.op = "executeAction"
    /\ ret.threw = "none"
    /\ ret.value.success
    /\ ret.value.newState # NoState

\* C11: whenever undo() succeeded, an immediately following redo()
\* succeeds and leaves current state, history and redo stack as they were
\* before the undo, at every history depth up to the bound.
C11_UndoThenRedoRestores ==
    [][ (UndoSucceeded /\ ret'.op = "redo") =>
          /\ ret'.value = TRUE
          /\ currentState' = prev.currentState
          /\ history' = prev.history
          /\ redoStack' = prev.redoStack ]_vars

\* A redo directly after an undo, on a history that was full.
C11_Witness ==
    /\ ret.op = "redo"
    /\ ret.value = TRUE
    /\ Len(events) >= 2
    /\ events[Len(events) - 1].type = "actionUndone"
    /\ events[Len(events)].type = "actionRedone"
    /\ Len(history) = maxHistorySize

\* C12: after any successful executeAction(a), one that ends the game
\* included, followed by one undo(), the current state is the state that
\* was current immediately before a was executed.
C12_UndoUndoesLastAction ==
    [][ (ActionSucceeded /\ ret'.op = "undo") =>
          /\ ret'.value = TRUE
          /\ currentState' = prev.currentState ]_vars

\* the newest n entries of a sequence, in order
KeepNewest(seq, n) ==
    IF Len(seq) > n THEN SubSeq(seq, Len(seq) - n + 1, Len(seq)) ELSE seq

\* the call was an initialize with an accepted config
Initialized2 == ret'.op = "initialize" /\ ret'.threw = "none"

\* C13: the history never holds more than maxHistorySize states; a call
\* that commits (executeAction, endTurn, initialize) keeps the newest
\* maxHistorySize of the old entries followed by the states it pushed, in
\* order, so only the oldest entries are dropped.
C13_HistoryBounded ==
    /\ [](Len(history) <= maxHistorySize)
    /\ [][ LET kept(pushed) == KeepNewest(history \o pushed, maxHistorySize)
           IN /\ (SuccessfulAction /\ ~EndingAction) =>
                    history' = kept(<<currentState>>)
              /\ EndingAction =>
                    history' = kept(<<currentState, RulesResult.newState>>)
              /\ TurnEnded =>
                    history' = kept(<<currentState>>)
              /\ (Initialized2 /\ Initialized) =>
                    history' = kept(<<currentState>>) ]_vars

\* A commit was made on a full history: the oldest entry was dropped.
C13_Witness ==
    /\ ret.op \in {"executeAction", "endTurn"}
    /\ Len(prev.history) = maxHistorySize
    /\ Len(history) = maxHistorySize
    /\ history # prev.history
    /\ history[1] = prev.history[2]

----------------------------------------------------------------------------
(* Event handlers that write to what they are handed.  The payload of     *)
(* actionExecuted is { action, result, state: result.newState }: its state *)
(* is the very object the rules returned, and the controller reads that    *)
(* object again for the end check after the handlers ran.                  *)

\* What a handler of actionExecuted does to the state object in its payload
HandlerWrites == {"nothing", "result"}

handlerWrite(state, write) ==
    IF write = "result"
    THEN [state EXCEPT !.gameData.result = "draw"]
    ELSE state

\* executeAction's commit branch with a handler subscribed to
\* actionExecuted: the end condition is checked on result.newState as the
\* handler left it.
commitObserved(m, action, result, write) ==
    IF result.success /\ result.newState # NoState
    THEN LET m1 == setState(m, result.newState)
             ev1 == <<actionExecuted(action, result.newState,
                                     getCurrentState(m1))>> \o
                    [i \in 1..Len(result.sideEffects) |->
                        sideEffect(result.sideEffects[i])]
             endCheck == checkEndCondition(handlerWrite(result.newState, write))
         IN IF endCheck.isEnded
            THEN LET e == handleGameEnd(m1, endCheck.winnerId, endCheck.reason)
                 IN [m |-> e.m, emitted |-> ev1 \o e.emitted]
            ELSE [m |-> m1, emitted |-> ev1]
    ELSE [m |-> m, emitted |-> <<>>]

ExecuteActionObserved(action, write) ==
    /\ Len(events) < MaxEvents
    /\ (action.type = "move" /\ currentState # Null)
          => currentState.gameData.score < MaxScore
    /\ IF getCurrentState(Manager) = Null
       THEN /\ ret' = [op |-> "executeAction", action |-> action,
                       threw |-> NotInitialized]
            /\ UNCHANGED <<currentState, history, redoStack, events>>
       ELSE LET state == getCurrentState(Manager)
                validation == validateAction(action, state)
            IN IF ~validation.isValid
               THEN /\ ret' = [op |-> "executeAction", action |-> action,
                               threw |-> "none",
                               value |-> [success |-> FALSE,
                                          error |-> validationError(validation)]]
                    /\ UNCHANGED <<currentState, history, redoStack, events>>
               ELSE LET result == rulesExecuteAction(action, state)
                        c == commitObserved(Manager, action, result, write)
                    IN /\ SetManager(c.m)
                       /\ events' = events \o c.emitted
                       /\ ret' = [op |-> "executeAction", action |-> action,
                                  threw |-> "none", value |-> result]
    /\ Called
    /\ UNCHANGED <<config, players, currentPlayerIndex, now, turnOrder>>

NextHandlers ==
    \/ \E cfg \in Configs : Initialize(cfg)
    \/ GetState
    \/ \E action \in Actions, write \in HandlerWrites :
          ExecuteActionObserved(action, write)
    \/ Undo
    \/ Redo

SpecHandlers == Init /\ [][NextHandlers]_vars

\* C14: what the controller hands out is independent of what it holds:
\* getState() returns a value structurally equal to the current state (so
\* two calls in a row return equal values), and whatever a caller or
\* handler writes to an object it was handed, a successful executeAction
\* whose new state does not end the game leaves that new state current,
\* on top of the state of before the call.
C14_HandedOutCopiesAreIndependent ==
    [][ /\ (ret'.op = "getState" /\ Initialized) =>
             /\ ret'.value = currentState
             /\ currentState' = currentState
        /\ (SuccessfulAction /\ ~EndingAction) =>
             /\ currentState' = RulesResult.newState
             /\ history' = KeepNewest(history \o <<currentState>>,
                                      maxHistorySize) ]_vars

\* C15: a successful executeAction appends to the event trace, in this
\* order: one actionExecuted, emitted when the action's new state is already
\* what getState() returns; one sideEffect per side effect the result
\* declares, in the declared order; and, only when the new state ends the
\* game, one gameEnded, last.
C15_EventsOfSuccessfulAction ==
    [][ SuccessfulAction =>
          LET newState == RulesResult.newState
              effects == RulesResult.sideEffects
              endCheck == checkEndCondition(newState)
          IN events' = events
                \o <<actionExecuted(ret'.action, newState, newState)>>
                \o [i \in 1..Len(effects) |-> sideEffect(effects[i])]
                \o (IF endCheck.isEnded
                    THEN <<gameEnded(endCheck.winnerId, endCheck.reason)>>
                    ELSE <<>>) ]_vars

\* reached: an action with two side effects has just ended the game
C15_Witness ==
    /\ ret.op = "executeAction"
    /\ ret.threw = "none"
    /\ ret.value.success
    /\ Len(ret.value.sideEffects) = 2
    /\ Len(events) >= 4
    /\ LET n == Len(events)
       IN /\ events[n - 3].type = "actionExecuted"
          /\ events[n - 2] = sideEffect(ret.value.sideEffects[1])
          /\ events[n - 1] = sideEffect(ret.value.sideEffects[2])
          /\ events[n].type = "gameEnded"

\* C16: in every state the controller can reach through initialize,
\* executeAction, endTurn, undo and redo, the player whose turn it is is
\* one of the players of that state.
C16_CurrentPlayerIsAPlayer ==
    Initialized =>
        currentState.turnInfo.currentPlayerId \in Ids(currentState.players)

\* the states the manager holds: current, history and redo stack
HeldStates ==
    (IF Initialized THEN {currentState} ELSE {})
        \cup { history[i] : i \in 1..Len(history) }
        \cup { redoStack[i] : i \in 1..Len(redoStack) }

\* C17: every state the manager holds, as current state, in the history or
\* on the redo stack, that has isComplete = true has phase 'completed'.
C17_CompleteImpliesCompletedPhase ==
    \A state \in HeldStates : state.isComplete => state.phase = "completed"

\* reached: a complete state is current, one is in the history and one is
\* on the redo stack
C17_Witness ==
    /\ Initialized
    /\ currentState.isComplete
    /\ \E i \in 1..Len(history) : history[i].isComplete
    /\ \E i \in 1..Len(redoStack) : redoStack[i].isComplete

----------------------------------------------------------------------------
(* The turn manager with a turn-order strategy other than the default.     *)
(* The controller builds its TurnManager with the sequential strategy and  *)
(* keeps it private; TurnManager.setStrategy is how a strategy is replaced. *)

Strategies ==
    {SequentialStrategy} \cup
    { customStrategy(sequence) :
        sequence \in {<<"p1", "p2">>, <<"p2", "p3">>, <<"p3">>} }

SetStrategy(strategy) ==
    /\ turnOrder' = strategyReset(strategy)
    /\ ret' = [op |-> "setStrategy", strategy |-> strategy, threw |-> "none"]
    /\ Called
    /\ UNCHANGED <<config, currentState, history, redoStack, players,
                   currentPlayerIndex, events, now>>

NextStrategy ==
    \/ \E cfg \in Configs : Initialize(cfg)
    \/ \E strategy \in Strategies : SetStrategy(strategy)
    \/ EndTurn
    \/ Undo
    \/ Redo

SpecStrategy == Init /\ [][NextStrategy]_vars

\* the id the strategy is about to return is not in the player list
StrategyAnswersNonPlayer ==
    /\ Len(players) > 0
    /\ currentPlayerIndex # -1
    /\ strategyNext(turnOrder, players[currentPlayerIndex + 1], players).id
          \notin Ids(players)

\* C18: when the turn-order strategy returns an id that is not in the player
\* list, endTurn on a game that is not complete throws 'Invalid next player
\* ID' and commits nothing: current state, history and redo stack are as
\* before and no event is emitted.
C18_InvalidNextPlayerIsFatal ==
    [][ (TurnEnded /\ StrategyAnswersNonPlayer) =>
          /\ ret'.threw = "Invalid next player ID"
          /\ StateUnchanged
          /\ events' = events ]_vars

\* reached: endTurn has just thrown on a game with history, after a turn
\* that the same strategy ended normally
C18_Witness ==
    /\ ret.op = "endTurn"
    /\ ret.threw = "Invalid next player ID"
    /\ turnOrder.kind = "custom"
    /\ Len(history) > 0
    /\ Len(events) > 0
    /\ events[Len(events)].type = "turnStarted"
    /\ currentState.turnInfo.turnNumber > 1

----------------------------------------------------------------------------
(* The AI players.  A game as an AI sees it is a tree: a state has the      *)
(* value evaluateState gives it, is terminal or not, and has one successor  *)
(* per available action.  Values that pass through addNoise are kept in    *)
(* hundredths, draws of Math.random() in tenths.                           *)

MaxValue == 1
Values == 0..MaxValue

PosInf == 1000
NegInf == -PosInf

AILevels == {"easy", "medium", "hard", "expert"}

\* getDifficultyNoiseFactor, in tenths: 2.0, 1.0, 0.5, 0.2
getDifficultyNoiseFactor(difficulty) ==
    CASE difficulty = "easy" -> 20
      [] difficulty = "medium" -> 10
      [] difficulty = "hard" -> 5
      [] difficulty = "expert" -> 2

\* value + (Math.random() - 0.5) * maxNoise * noiseFactor, in hundredths;
\* an infinite value stays infinite
addNoise(value, maxNoise, difficulty, draw) ==
    IF value \in {PosInf, NegInf}
    THEN value * 100
    ELSE value * 100
            + (draw - 5) * maxNoise * getDifficultyNoiseFactor(difficulty)

\* A depth is a number, and nothing makes it a whole one: depths are kept
\* in halves, and this is one ply
Ply == 2

getDepthByDifficulty(level) ==
    CASE level = "easy" -> Ply
      [] level = "medium" -> 2 * Ply
      [] level = "hard" -> 3 * Ply
      [] level = "expert" -> 4 * Ply

\* MinimaxAI's constructor: config.maxDepth || getDepthByDifficulty(...)
\* (a maxDepth that is absent or 0 falls through to the difficulty)
maxDepthOf(aiConfig) ==
    IF aiConfig.maxDepth # 0
    THEN aiConfig.maxDepth
    ELSE getDepthByDifficulty(aiConfig.difficulty)

\* A state of a game that is a graph is a position in the graph; the graph
\* may lead back to a position, so the game below a state has no last ply
position(state) ==
    IF "graph" \in DOMAIN state THEN state.graph[state.at] ELSE state

\* The game-specific methods, on game trees and game graphs
evaluateState(state) == position(state).value
isTerminalState(state) == position(state).terminal
getActionsForState(state) == [i \in 1..Len(position(state).moves) |-> i]
simulateAction(action, state) ==
    IF "graph" \in DOMAIN state
    THEN [graph |-> state.graph, at |-> position(state).moves[action]]
    ELSE state.moves[action]

\* The greedy evaluation that looks at the state the action leads to
evaluateAction(action, state) == evaluateState(simulateAction(action, state))

max(a, b) == IF a >= b THEN a ELSE b
min(a, b) == IF a <= b THEN a ELSE b

\* Mutant of cutoff: the comparison is the wrong way round.
cutoff_Swapped(alpha, beta) == alpha <= beta

\* if (beta <= alpha) break
cutoff(alpha, beta) == beta <= alpha

\* What a search did, as a list of the calls it made, in call order.  An
\* entry's path is the list of actions that leads from the state the search
\* started at to the state the entry is about: the state evaluateState got,
\* the state simulateAction produced, the state a call of minimax was given
\* (that entry is written when the call returns and has the value returned).
evaluated(state) ==
    [fn |-> "evaluateState", path |-> <<>>, state |-> state]
simulated(action, newState) ==
    [fn |-> "simulateAction", path |-> <<action>>, state |-> newState]
returned(state, depth, maximizingPlayer, value) ==
    [fn |-> "minimax", path |-> <<>>, state |-> state, depth |-> depth,
     maximizingPlayer |-> maximizingPlayer, value |-> value]

\* the calls made below the state an action led to, seen from the state
\* the action was taken in
under(action, calls) ==
    [i \in 1..Len(calls) |-> [calls[i] EXCEPT !.path = <<action>> \o @]]

RECURSIVE minimax(_, _, _, _, _)
RECURSIVE maxLoop(_, _, _, _, _, _, _)
RECURSIVE minLoop(_, _, _, _, _, _, _)

\* the for loop of the maximizing player, from the i-th action on
maxLoop(state, actions, i, depth, alpha, beta, maxEval) ==
    IF i > Len(actions)
    THEN [value |-> maxEval, calls |-> <<>>]
    ELSE LET newState == simulateAction(actions[i], state)
             child == minimax(newState, depth - Ply, alpha, beta, FALSE)
             evalValue == child.value
             maxEval1 == max(maxEval, evalValue)
             alpha1 == max(alpha, evalValue)
             calls == <<simulated(actions[i], newState)>>
                         \o under(actions[i], child.calls)
         IN IF cutoff(alpha1, beta)
            THEN [value |-> maxEval1, calls |-> calls]
            ELSE LET rest == maxLoop(state, actions, i + 1, depth, alpha1,
                                     beta, maxEval1)
                 IN [value |-> rest.value, calls |-> calls \o rest.calls]

\* the for loop of the minimizing player, from the i-th action on
minLoop(state, actions, i, depth, alpha, beta, minEval) ==
    IF i > Len(actions)
    THEN [value |-> minEval, calls |-> <<>>]
    ELSE LET newState == simulateAction(actions[i], state)
             child == minimax(newState, depth - Ply, alpha, beta, TRUE)
             evalValue == child.value
             minEval1 == min(minEval, evalValue)
             beta1 == min(beta, evalValue)
             calls == <<simulated(actions[i], newState)>>
                         \o under(actions[i], child.calls)
         IN IF cutoff(alpha, beta1)
            THEN [value |-> minEval1, calls |-> calls]
            ELSE LET rest == minLoop(state, actions, i + 1, depth, alpha,
                                     beta1, minEval1)
                 IN [value |-> rest.value, calls |-> calls \o rest.calls]

\* Mutant of minimax: a state without actions is evaluated.
minimax_EvaluatesStuck(state, depth, alpha, beta, maximizingPlayer) ==
    IF depth = 0 \/ isTerminalState(state)
          \/ Len(getActionsForState(state)) = 0
    THEN [value |-> evaluateState(state),
          calls |-> << evaluated(state),
                       returned(state, depth, maximizingPlayer,
                                evaluateState(state)) >>]
    ELSE LET actions == getActionsForState(state)
             loop == IF maximizingPlayer
                     THEN maxLoop(state, actions, 1, depth, alpha, beta,
                                  NegInf)
                     ELSE minLoop(state, actions, 1, depth, alpha, beta,
                                  PosInf)
         IN [value |-> loop.value,
             calls |-> Append(loop.calls,
                              returned(state, depth, maximizingPlayer,
                                       loop.value))]

\* MinimaxAI.minimax: the value returned and the calls made
minimax(state, depth, alpha, beta, maximizingPlayer) ==
    IF depth = 0 \/ isTerminalState(state)
    THEN [value |-> evaluateState(state),
          calls |-> << evaluated(state),
                       returned(state, depth, maximizingPlayer,
                                evaluateState(state)) >>]
    ELSE LET actions == getActionsForState(state)
             loop == IF maximizingPlayer
                     THEN maxLoop(state, actions, 1, depth, alpha, beta,
                                  NegInf)
                     ELSE minLoop(state, actions, 1, depth, alpha, beta,
                                  PosInf)
         IN [value |-> loop.value,
             calls |-> Append(loop.calls,
                              returned(state, depth, maximizingPlayer,
                                       loop.value))]

\* evaluatedActions.sort((a, b) => b.value - a.value): a stable sort,
\* descending; entries of equal value keep their order
\* Mutant of insertSorted: an entry goes before the entries of its own value.
RECURSIVE insertSorted_Unstable(_, _)
insertSorted_Unstable(sorted, entry) ==
    IF sorted = <<>>
    THEN <<entry>>
    ELSE IF Head(sorted).value > entry.value
         THEN <<Head(sorted)>> \o insertSorted_Unstable(Tail(sorted), entry)
         ELSE <<entry>> \o sorted

RECURSIVE insertSorted(_, _)
insertSorted(sorted, entry) ==
    IF sorted = <<>>
    THEN <<entry>>
    ELSE IF Head(sorted).value >= entry.value
         THEN <<Head(sorted)>> \o insertSorted(Tail(sorted), entry)
         ELSE <<entry>> \o sorted

RECURSIVE sortDescending(_)
sortDescending(entries) ==
    IF entries = <<>>
    THEN <<>>
    ELSE insertSorted(sortDescending(Front(entries)), Last(entries))

\* Mutant of minimaxChooseAction: the search below a root action gets the
\* whole depth.
minimaxChooseAction_FullDepth(aiConfig, state, availableActions, draws) ==
    IF Len(availableActions) = 0
    THEN 0
    ELSE LET evaluatedActions ==
                 [i \in 1..Len(availableActions) |->
                    LET newState == simulateAction(availableActions[i], state)
                        value == minimax(newState, maxDepthOf(aiConfig),
                                         NegInf, PosInf, FALSE).value
                    IN [action |-> availableActions[i],
                        value |-> addNoise(value, 10, aiConfig.difficulty,
                                           draws[i])]]
         IN sortDescending(evaluatedActions)[1].action

\* MinimaxAI.chooseAction: the action chosen, 0 for null, and the calls
\* made.  Without injected async methods simulateThinking draws nothing, so
\* the i-th action's noise is the i-th draw.
minimaxChoice(aiConfig, state, availableActions, draws) ==
    IF Len(availableActions) = 0
    THEN [action |-> 0, calls |-> <<>>]
    ELSE LET searched ==
                 [i \in 1..Len(availableActions) |->
                    LET newState == simulateAction(availableActions[i], state)
                    IN [newState |-> newState,
                        below |-> minimax(newState, maxDepthOf(aiConfig) - Ply,
                                          NegInf, PosInf, FALSE)]]
             evaluatedActions ==
                 [i \in 1..Len(availableActions) |->
                    [action |-> availableActions[i],
                     value |-> addNoise(searched[i].below.value, 10,
                                        aiConfig.difficulty, draws[i])]]
             callsOf[i \in 0..Len(availableActions)] ==
                 IF i = 0
                 THEN <<>>
                 ELSE callsOf[i - 1]
                        \o <<simulated(availableActions[i],
                                       searched[i].newState)>>
                        \o under(availableActions[i],
                                 searched[i].below.calls)
         IN [action |-> sortDescending(evaluatedActions)[1].action,
             calls |-> callsOf[Len(availableActions)]]

minimaxChooseAction(aiConfig, state, availableActions, draws) ==
    minimaxChoice(aiConfig, state, availableActions, draws).action

\* GreedyAI.chooseAction: the action chosen (0 for null), the actions
\* evaluateAction was called with, in call order, and the number of noise
\* terms drawn
greedyChoice(aiConfig, state, availableActions, draws) ==
    IF Len(availableActions) = 0
    THEN [action |-> 0, evaluated |-> <<>>, noiseTerms |-> 0]
    ELSE LET evaluatedActions ==
                 [i \in 1..Len(availableActions) |->
                    [action |-> availableActions[i],
                     value |-> evaluateAction(availableActions[i], state)]]
             noisy ==
                 [i \in 1..Len(availableActions) |->
                    [action |-> evaluatedActions[i].action,
                     value |-> addNoise(evaluatedActions[i].value, 20,
                                        aiConfig.difficulty, draws[i])]]
         IN [action |-> sortDescending(noisy)[1].action,
             evaluated |-> [i \in 1..Len(evaluatedActions) |->
                              evaluatedActions[i].action],
             noiseTerms |-> Len(noisy)]

greedyChooseAction(aiConfig, state, availableActions, draws) ==
    greedyChoice(aiConfig, state, availableActions, draws).action

\* Game trees: a leaf is a terminal state; an inner state has no move or two
Leaf(value) == [value |-> value, terminal |-> TRUE, moves |-> <<>>]
Inner(value, moves) == [value |-> value, terminal |-> FALSE, moves |-> moves]
Leaves == { Leaf(value) : value \in Values }
MovesOver(states) == {<<>>} \cup (states \X states)

\* trees three plies deep, for a search that reaches every leaf
Ply2States == Leaves \cup { Inner(0, moves) : moves \in MovesOver(Leaves) }
Ply1States == Leaves \cup { Inner(0, moves) : moves \in MovesOver(Ply2States) }
DeepStates == { Inner(0, moves) : moves \in MovesOver(Ply1States) }

\* trees whose first ply has states of its own value with a reply below
ReplyStates ==
    Leaves \cup { Inner(value, <<reply>>) : value \in Values, reply \in Leaves }
ShallowStates == { Inner(0, moves) : moves \in MovesOver(ReplyStates) }

\* draws of Math.random(), in tenths
Draws == {0, 2, 5, 8}

\* A call of chooseAction about to be made: the AI's configuration, the
\* state, and the draws Math.random() is going to give
MinimaxInputs ==
    [kind : {"input"},
     aiConfig : [difficulty : {"hard", "expert"}, maxDepth : {0}],
     state : DeepStates,
     draws : {<<5, 5>>}]
\* Game graphs: from a position a move leads to any position, its own
\* included, so a game need not end
MaxDepth == 3
GraphNodes == 1..2
GraphPositions ==
    [value : Values, terminal : BOOLEAN,
     moves : {<<>>} \cup { <<n>> : n \in GraphNodes }
                    \cup (GraphNodes \X GraphNodes)]
Graphs == [GraphNodes -> GraphPositions]

\* the values of maxDepth from 1 on: the whole ones, and all of them
WholeDepths == { plies * Ply : plies \in 1..MaxDepth }
Depths == Ply..(MaxDepth * Ply)

\* Calls of chooseAction for every maxDepth from 1 on.  On a graph the
\* model makes the calls with a whole maxDepth only: the others do not
\* return there.
DepthInputs ==
    [kind : {"input"},
     aiConfig : [difficulty : {"medium"}, maxDepth : WholeDepths],
     state : [graph : Graphs, at : {1}],
     draws : {<<5, 5>>}]
    \cup
    [kind : {"input"},
     aiConfig : [difficulty : {"medium"}, maxDepth : Depths],
     state : ShallowStates,
     draws : {<<5, 5>>}]
GreedyInputs ==
    [kind : {"input"},
     aiConfig : [difficulty : AILevels, maxDepth : {Ply}],
     state : ShallowStates,
     draws : Draws \X Draws]

InitAI(inputs) ==
    /\ config = Null
    /\ currentState = Null
    /\ history = <<>>
    /\ redoStack = <<>>
    /\ players = <<>>
    /\ currentPlayerIndex = 0
    /\ events = <<>>
    /\ now = 0
    /\ ret = [op |-> "new", threw |-> "none"]
    /\ turnOrder = SequentialStrategy
    /\ prev = [currentState |-> Null, history |-> <<>>, redoStack |-> <<>>]
    /\ search \in inputs
    /\ aiPlayers = NoAIs
    /\ bus = NewEventBus
    /\ checkpoints = NoCheckpoints
    /\ heap = NoHeap

\* The second argument of the call: the list the input names, or else
\* every action of the state, as the controller passes it
availableActionsOf(input) ==
    IF "availableActions" \in DOMAIN input
    THEN input.availableActions
    ELSE getActionsForState(input.state)

\* RandomAI.chooseAction: availableActions[Math.floor(Math.random() *
\* availableActions.length)], 0 for null; the draw is in tenths
randomChooseAction(availableActions, draw) ==
    IF Len(availableActions) = 0
    THEN 0
    ELSE availableActions[(draw * Len(availableActions)) \div 10 + 1]

RandomChoose ==
    /\ search.kind = "input"
    /\ search' = [kind |-> "chosen", by |-> "random", input |-> search,
                  action |-> randomChooseAction(availableActionsOf(search),
                                                search.draws[1])]
    /\ UNCHANGED <<config, currentState, history, redoStack, players,
                   currentPlayerIndex, events, now, ret, turnOrder, prev,
                   aiPlayers, bus,
                   checkpoints, heap>>

MinimaxChoose ==
    /\ search.kind = "input"
    /\ search' = [kind |-> "chosen", by |-> "minimax", input |-> search,
                  action |-> minimaxChooseAction(
                                search.aiConfig, search.state,
                                availableActionsOf(search), search.draws),
                  calls |-> minimaxChoice(
                                search.aiConfig, search.state,
                                availableActionsOf(search),
                                search.draws).calls]
    /\ UNCHANGED <<config, currentState, history, redoStack, players,
                   currentPlayerIndex, events, now, ret, turnOrder, prev,
                   aiPlayers, bus,
                   checkpoints, heap>>

GreedyChoose ==
    /\ search.kind = "input"
    /\ LET choice == greedyChoice(search.aiConfig, search.state,
                                  availableActionsOf(search),
                                  search.draws)
       IN search' = [kind |-> "chosen", by |-> "greedy", input |-> search,
                     action |-> choice.action,
                     evaluated |-> choice.evaluated,
                     noiseTerms |-> choice.noiseTerms]
    /\ UNCHANGED <<config, currentState, history, redoStack, players,
                   currentPlayerIndex, events, now, ret, turnOrder, prev,
                   aiPlayers, bus,
                   checkpoints, heap>>

NextAI ==
    \/ MinimaxChoose
    \/ GreedyChoose

SpecMinimax == InitAI(MinimaxInputs) /\ [][NextAI]_vars
SpecDepth == InitAI(DepthInputs) /\ [][NextAI]_vars
SpecGreedy == InitAI(GreedyInputs) /\ [][NextAI]_vars

\* the step is a chooseAction of the named AI
Chose(by) ==
    /\ search.kind = "input"
    /\ search'.kind = "chosen"
    /\ search'.by = by

\* every draw is 0.5: the noise term is zero
ZeroNoise(input) == \A i \in 1..Len(input.draws) : input.draws[i] = 5

\* depth-bounded minimax without pruning
RECURSIVE plainMinimax(_, _, _)
plainMinimax(state, depth, maximizingPlayer) ==
    IF depth = 0 \/ state.terminal
    THEN state.value
    ELSE LET below == { plainMinimax(state.moves[i], depth - Ply,
                                     ~maximizingPlayer) :
                          i \in 1..Len(state.moves) }
         IN IF maximizingPlayer
            THEN CHOOSE v \in below \cup {NegInf} :
                    \A w \in below \cup {NegInf} : w <= v
            ELSE CHOOSE v \in below \cup {PosInf} :
                    \A w \in below \cup {PosInf} : v <= w

\* the first root action of greatest plain minimax value, 0 if there is none
plainChoice(state, maxDepth) ==
    IF Len(state.moves) = 0
    THEN 0
    ELSE LET value(i) == plainMinimax(state.moves[i], maxDepth - Ply, FALSE)
         IN CHOOSE i \in 1..Len(state.moves) :
                /\ \A j \in 1..Len(state.moves) : value(j) <= value(i)
                /\ \A j \in 1..(i - 1) : value(j) < value(i)

\* C19: with a deterministic evaluateState and zero noise, the action
\* Minimax chooseAction selects with alpha-beta pruning is the root action
\* that depth-bounded minimax without pruning selects, for every game tree
\* no deeper than maxDepth and all leaf values.
C19_AlphaBetaChoosesAsMinimax ==
    [][ (Chose("minimax") /\ ZeroNoise(search)) =>
          search'.action =
             plainChoice(search.state, maxDepthOf(search.aiConfig)) ]_vars

\* reached: Minimax has chosen an action below which the search cut off a
\* leaf that is greater than everything it looked at there
C19_Witness ==
    /\ search.kind = "chosen"
    /\ search.by = "minimax"
    /\ ZeroNoise(search.input)
    /\ search.action # 0
    /\ LET reply == search.input.state.moves[search.action]
       IN /\ ~reply.terminal
          /\ Len(reply.moves) = 2
          /\ \A i \in 1..2 : /\ ~reply.moves[i].terminal
                              /\ Len(reply.moves[i].moves) = 2
          /\ LET first == reply.moves[1].moves
                 second == reply.moves[2].moves
             IN /\ second[1].value >= max(first[1].value, first[2].value)
                /\ second[2].value > second[1].value

\* C20: a Minimax AI with maxDepth = 1 chooses the action a Greedy AI chooses
\* whose evaluateAction(a, s) is evaluateState(simulateAction(a, s)), for
\* every state and action list, when both have the same difficulty and get
\* the same noise draws.
C20_DepthOneMinimaxIsGreedy ==
    [][ (Chose("minimax") /\ maxDepthOf(search.aiConfig) = Ply) =>
          search'.action =
             greedyChooseAction(search.aiConfig, search.state,
                                getActionsForState(search.state),
                                search.draws) ]_vars

\* C20, amended: ... when every noise draw is 0.5, so that the noise terms
\* are zero.
C20_DepthOneMinimaxIsGreedyWithoutNoise ==
    [][ (Chose("minimax") /\ maxDepthOf(search.aiConfig) = Ply
            /\ ZeroNoise(search)) =>
          search'.action =
             greedyChooseAction(search.aiConfig, search.state,
                                getActionsForState(search.state),
                                search.draws) ]_vars

\* reached: without noise, a Minimax AI of depth 1 has chosen the second
\* action, whose state is worth more than the first's, while the reply to
\* it is worth less
C20_Witness ==
    /\ search.kind = "chosen"
    /\ search.by = "minimax"
    /\ maxDepthOf(search.input.aiConfig) = Ply
    /\ ZeroNoise(search.input)
    /\ search.action = 2
    /\ LET chosen == search.input.state.moves[2]
       IN /\ ~chosen.terminal
          /\ chosen.moves[1].value < chosen.value

----------------------------------------------------------------------------
(* Monte Carlo Tree Search.  The search tree is the array of the MCTSNode   *)
(* objects in creation order; parent and children are indices into it, 0   *)
(* for null.  UCB1 values are kept in millionths.                          *)

MaxIterations == 5

\* 1.414 * Math.sqrt(Math.log(parentVisits) / childVisits) in millionths,
\* by parent visits (rows) and child visits (columns)
explorationTerm ==
    << <<0, 0, 0, 0, 0, 0>>,
       <<1177232, 832429, 679675, 588616, 526474, 480603>>,
       <<1482080, 1047989, 855679, 741040, 662806, 605057>>,
       <<1664858, 1177232, 961206, 832429, 744547, 679675>>,
       <<1793852, 1268445, 1035681, 896926, 802235, 732337>>,
       <<1892733, 1338364, 1092770, 946366, 846456, 772705>> >>

MCTSNode(state, action, parent) ==
    [state |-> state, action |-> action, parent |-> parent,
     children |-> <<>>, visits |-> 0, totalValue |-> 0]

isLeaf(node) == Len(node.children) = 0

\* Mutant of getUCB1Value: a child without visits is worth nothing.
getUCB1Value_UnvisitedZero(nodes, node, child) ==
    IF nodes[child].visits = 0
    THEN 0
    ELSE (nodes[child].totalValue * 1000000) \div nodes[child].visits
            + explorationTerm[nodes[node].visits][nodes[child].visits]

getUCB1Value(nodes, node, child) ==
    IF nodes[child].visits = 0
    THEN PosInf * 1000000
    ELSE (nodes[child].totalValue * 1000000) \div nodes[child].visits
            + explorationTerm[nodes[node].visits][nodes[child].visits]

\* the loop of getBestChild from the i-th child on
RECURSIVE bestChildLoop(_, _, _, _, _)
bestChildLoop(nodes, node, i, bestChild, bestValue) ==
    IF i > Len(nodes[node].children)
    THEN bestChild
    ELSE LET child == nodes[node].children[i]
             value == getUCB1Value(nodes, node, child)
         IN IF value > bestValue
            THEN bestChildLoop(nodes, node, i + 1, child, value)
            ELSE bestChildLoop(nodes, node, i + 1, bestChild, bestValue)

getBestChild(nodes, node) ==
    IF Len(nodes[node].children) = 0
    THEN 0
    ELSE LET first == nodes[node].children[1]
         IN bestChildLoop(nodes, node, 1, first,
                          getUCB1Value(nodes, node, first))

\* Selection: the nodes passed from node down to the one the loop stops at
RECURSIVE selection(_, _)
selection(nodes, node) ==
    IF ~isLeaf(nodes[node]) /\ ~isTerminalState(nodes[node].state)
    THEN LET best == getBestChild(nodes, node)
         IN IF best = 0
            THEN <<node>>
            ELSE <<node>> \o selection(nodes, best)
    ELSE <<node>>

\* Mutant of expand: the node gets the one child that is simulated.
expand_OneChild(nodes, node, pick) ==
    LET actions == getActionsForState(nodes[node].state)
        added == IF Len(actions) = 0
                 THEN <<>>
                 ELSE <<MCTSNode(simulateAction(actions[pick],
                                                nodes[node].state),
                                 actions[pick], node)>>
        children == nodes[node].children \o
                    [i \in 1..Len(added) |-> Len(nodes) + i]
        grown == [nodes EXCEPT ![node].children = children] \o added
    IN [nodes |-> grown,
        node |-> IF Len(children) > 0 THEN children[1] ELSE node]

\* expand: one child per action is added to node; the node returned is the
\* child Math.floor(Math.random() * children.length) picks, or node itself
\* when it got no child
expand(nodes, node, pick) ==
    LET actions == getActionsForState(nodes[node].state)
        added == [i \in 1..Len(actions) |->
                    MCTSNode(simulateAction(actions[i], nodes[node].state),
                             actions[i], node)]
        children == nodes[node].children \o
                    [i \in 1..Len(actions) |-> Len(nodes) + i]
        grown == [nodes EXCEPT ![node].children = children] \o added
    IN [nodes |-> grown,
        node |-> IF Len(children) > 0 THEN children[pick] ELSE node]

\* Mutant of backpropagate: the walk starts at the parent of the simulated
\* node.
RECURSIVE backpropagate_FromParent(_, _, _)
backpropagate_FromParent(nodes, node, value) ==
    IF node = 0 \/ nodes[node].parent = 0
    THEN nodes
    ELSE LET up == nodes[node].parent
         IN backpropagate_FromParent(
               [nodes EXCEPT ![up].visits = @ + 1,
                             ![up].totalValue = @ + value],
               up, value)

\* Mutant of backpropagate: the root is left out.
RECURSIVE backpropagate_BelowRoot(_, _, _)
backpropagate_BelowRoot(nodes, node, value) ==
    IF node = 0 \/ nodes[node].parent = 0
    THEN nodes
    ELSE backpropagate_BelowRoot(
            [nodes EXCEPT ![node].visits = @ + 1,
                          ![node].totalValue = @ + value],
            nodes[node].parent, value)

\* Mutant of backpropagate: the walk ends at the parent of the simulated
\* node.
backpropagate_OneLevel(nodes, node, value) ==
    LET own == [nodes EXCEPT ![node].visits = @ + 1,
                             ![node].totalValue = @ + value]
        up == nodes[node].parent
    IN IF up = 0
       THEN own
       ELSE [own EXCEPT ![up].visits = @ + 1,
                        ![up].totalValue = @ + value]

RECURSIVE backpropagate(_, _, _)
backpropagate(nodes, node, value) ==
    IF node = 0
    THEN nodes
    ELSE backpropagate(
            [nodes EXCEPT ![node].visits = @ + 1,
                          ![node].totalValue = @ + value],
            nodes[node].parent, value)

\* Mutant of mostVisited: a later child of as many visits takes over.
RECURSIVE mostVisited_LastWins(_, _, _)
mostVisited_LastWins(nodes, i, bestChild) ==
    IF i > Len(nodes[1].children)
    THEN bestChild
    ELSE LET child == nodes[1].children[i]
         IN IF nodes[child].visits >= nodes[bestChild].visits
            THEN mostVisited_LastWins(nodes, i + 1, child)
            ELSE mostVisited_LastWins(nodes, i + 1, bestChild)

\* the loop over root.children after the iterations, from the i-th child on
RECURSIVE mostVisited(_, _, _)
mostVisited(nodes, i, bestChild) ==
    IF i > Len(nodes[1].children)
    THEN bestChild
    ELSE LET child == nodes[1].children[i]
         IN IF nodes[child].visits > nodes[bestChild].visits
            THEN mostVisited(nodes, i + 1, child)
            ELSE mostVisited(nodes, i + 1, bestChild)

\* bestChild?.action || null, 0 for null
chosenAction(nodes) ==
    IF Len(nodes[1].children) = 0
    THEN 0
    ELSE nodes[mostVisited(nodes, 1, nodes[1].children[1])].action

\* states an MCTS search starts from: two plies of moves at most
MctsStates == Ply1States

\* this.iterations: the difficulty sets 100 to 2000
\* (getIterationsByDifficulty); the field is protected and the model runs
\* the loop for the small numbers a subclass may set
MctsInputs ==
    [kind : {"input"},
     aiConfig : [difficulty : {"medium"}, maxDepth : {0}],
     iterations : 1..MaxIterations,
     state : MctsStates,
     availableActions : {<<>>, <<1, 2>>}]

\* chooseAction up to the loop: null for no available action, else the
\* root node
MctsStart ==
    /\ search.kind = "input"
    /\ "iterations" \in DOMAIN search
    /\ IF Len(search.availableActions) = 0
       THEN search' = [kind |-> "chosen", by |-> "mcts", input |-> search,
                       action |-> 0, nodes |-> <<>>]
       ELSE search' = [kind |-> "mcts", input |-> search, i |-> 0,
                       nodes |-> <<MCTSNode(search.state, 0, 0)>>,
                       path |-> <<>>, simulated |-> 0, value |-> 0]
    /\ UNCHANGED <<config, currentState, history, redoStack, players,
                   currentPlayerIndex, events, now, ret, turnOrder, prev,
                   aiPlayers, bus,
                   checkpoints, heap>>

\* One pass of the loop: selection, expansion, simulation, backpropagation.
\* path, simulated and value record what the pass did.
MctsIterate ==
    /\ search.kind = "mcts"
    /\ search.i < search.input.iterations
    /\ LET nodes == search.nodes
           path == selection(nodes, 1)
           node == Last(path)
       IN \E pick \in 1..max(1, Len(getActionsForState(nodes[node].state))),
             value \in Values :
             LET expanded == IF ~isTerminalState(nodes[node].state)
                             THEN expand(nodes, node, pick)
                             ELSE [nodes |-> nodes, node |-> node]
             IN search' = [search EXCEPT
                             !.i = @ + 1,
                             !.nodes = backpropagate(expanded.nodes,
                                                     expanded.node, value),
                             !.path = path,
                             !.simulated = expanded.node,
                             !.value = value]
    /\ UNCHANGED <<config, currentState, history, redoStack, players,
                   currentPlayerIndex, events, now, ret, turnOrder, prev,
                   aiPlayers, bus,
                   checkpoints, heap>>

\* chooseAction after the loop
MctsFinish ==
    /\ search.kind = "mcts"
    /\ search.i = search.input.iterations
    /\ search' = [kind |-> "chosen", by |-> "mcts", input |-> search.input,
                  action |-> chosenAction(search.nodes),
                  nodes |-> search.nodes]
    /\ UNCHANGED <<config, currentState, history, redoStack, players,
                   currentPlayerIndex, events, now, ret, turnOrder, prev,
                   aiPlayers, bus,
                   checkpoints, heap>>

\* Calls of chooseAction of any AI: the state, and a list of available
\* actions that holds some of the state's actions, in some order
ActionLists == {<<>>, <<1>>, <<2>>, <<1, 2>>, <<2, 1>>}
ChooseInputs ==
    { input \in [kind : {"input"},
                 aiConfig : [difficulty : {"medium"}, maxDepth : {0}],
                 iterations : {MaxIterations},
                 state : ShallowStates,
                 draws : {<<0, 5>>, <<5, 5>>, <<8, 2>>},
                 availableActions : ActionLists] :
        \A i \in 1..Len(input.availableActions) :
           input.availableActions[i] \in DOMAIN input.state.moves }

NextChoose ==
    \/ RandomChoose
    \/ GreedyChoose
    \/ MinimaxChoose
    \/ MctsStart
    \/ MctsIterate
    \/ MctsFinish

SpecChoose == InitAI(ChooseInputs) /\ [][NextChoose]_vars

NextMcts ==
    \/ MctsStart
    \/ MctsIterate
    \/ MctsFinish

SpecMcts == InitAI(MctsInputs) /\ [][NextMcts]_vars

\* the MCTS search whose loop is running, or that has returned with a tree
MctsTree ==
    /\ search.kind \in {"mcts", "chosen"}
    /\ "nodes" \in DOMAIN search
    /\ search.nodes # <<>>

RECURSIVE SumOfVisits(_, _)
SumOfVisits(nodes, children) ==
    IF children = <<>>
    THEN 0
    ELSE nodes[Head(children)].visits + SumOfVisits(nodes, Tail(children))

\* the passes of the loop made so far
IterationsDone ==
    IF search.kind = "mcts" THEN search.i ELSE search.input.iterations

\* C21: on a root state that is not terminal and has a legal action, the
\* visits of the root's children add up to the number of iterations made:
\* after every pass of the loop, and to N when chooseAction has returned
\* after its N iterations.
C21_RootChildVisitsSumToIterations ==
    (/\ MctsTree
     /\ ~search.input.state.terminal
     /\ Len(search.input.state.moves) > 0)
        => SumOfVisits(search.nodes, search.nodes[1].children) = IterationsDone

\* reached: chooseAction has returned after the greatest number of
\* iterations, both children of the root were visited, one more than once
C21_Witness ==
    /\ MctsTree
    /\ search.kind = "chosen"
    /\ search.input.iterations = MaxIterations
    /\ Len(search.nodes[1].children) = 2
    /\ \A i \in 1..2 : search.nodes[search.nodes[1].children[i]].visits > 0
    /\ \E i \in 1..2 : search.nodes[search.nodes[1].children[i]].visits > 1

\* the step is a pass of the MCTS loop
Iterated == search.kind = "mcts" /\ search'.kind = "mcts"

Unvisited(nodes, node) ==
    { i \in 1..Len(nodes[node].children) :
        nodes[nodes[node].children[i]].visits = 0 }

C23_MostVisitedChildChosen ==
    [][ (search.kind = "mcts" /\ search'.kind = "chosen") =>
          LET nodes == search.nodes
              children == nodes[1].children
          IN IF children = <<>>
             THEN search'.action = 0
             ELSE \E i \in 1..Len(children) :
                    /\ search'.action = nodes[children[i]].action
                    /\ \A j \in 1..Len(children) :
                          nodes[children[j]].visits <= nodes[children[i]].visits
                    /\ \A j \in 1..(i - 1) :
                          nodes[children[j]].visits < nodes[children[i]].visits
       ]_vars

\* reached: the second action was chosen for its visits although the first
\* child has the greater average value
C23_Witness ==
    /\ MctsTree
    /\ search.kind = "chosen"
    /\ search.action = 2
    /\ LET first == search.nodes[search.nodes[1].children[1]]
           second == search.nodes[search.nodes[1].children[2]]
       IN /\ first.visits > 0
          /\ second.visits > first.visits
          /\ first.totalValue * second.visits
                > second.totalValue * first.visits

\* the nodes from node up to the root, by the parent references
RECURSIVE ParentChain(_, _)
ParentChain(nodes, node) ==
    IF node = 0
    THEN {}
    ELSE {node} \cup ParentChain(nodes, nodes[node].parent)

\* C30: the backpropagation of a pass adds 1 to visits and the playout
\* value, as it is, to totalValue on the nodes of the parent chain from the
\* simulated node up to the root, and on no other node: every other node
\* keeps its visits and totalValue, and the nodes the pass created off the
\* chain have none.
C30_BackpropagationUpdatesParentChain ==
    [][ Iterated =>
          LET after == search'.nodes
              chain == ParentChain(after, search'.simulated)
              before(node) == IF node <= Len(search.nodes)
                              THEN search.nodes[node]
                              ELSE MCTSNode(after[node].state,
                                            after[node].action,
                                            after[node].parent)
          IN /\ 1 \in chain
             /\ \A node \in 1..Len(after) :
                  IF node \in chain
                  THEN /\ after[node].visits = before(node).visits + 1
                       /\ after[node].totalValue =
                             before(node).totalValue + search'.value
                  ELSE /\ after[node].visits = before(node).visits
                       /\ after[node].totalValue = before(node).totalValue
       ]_vars

\* reached: the last pass simulated a node two plies below the root with a
\* playout value that is not zero, while a visited node is off its chain
C30_Witness ==
    /\ search.kind = "mcts"
    /\ search.simulated # 0
    /\ search.value > 0
    /\ Cardinality(ParentChain(search.nodes, search.simulated)) = 3
    /\ \E node \in 1..Len(search.nodes) :
          /\ node \notin ParentChain(search.nodes, search.simulated)
          /\ search.nodes[node].visits > 0
          /\ search.nodes[node].totalValue > 0

\* C24: Greedy chooseAction calls evaluateAction once for every available
\* action, adds one noise term of maxNoise 20 to each value and returns the
\* action of the greatest noised value, the first in availableActions among
\* those of the greatest value; it returns null for no available action.
C24_GreedyChoosesGreatestNoisedValue ==
    [][ Chose("greedy") =>
          LET actions == getActionsForState(search.state)
              noised(i) == search.state.moves[actions[i]].value * 100
                             + (search.draws[i] - 5) * 20
                                 * getDifficultyNoiseFactor(
                                      search.aiConfig.difficulty)
          IN /\ search'.evaluated = actions
             /\ search'.noiseTerms = Len(actions)
             /\ IF actions = <<>>
                THEN search'.action = 0
                ELSE \E i \in 1..Len(actions) :
                       /\ search'.action = actions[i]
                       /\ \A j \in 1..Len(actions) : noised(j) <= noised(i)
                       /\ \A j \in 1..(i - 1) : noised(j) < noised(i) ]_vars

\* reached: Greedy has chosen the second action, whose state is worth less
\* than the first's: the noise turned the order round
C24_Witness ==
    /\ search.kind = "chosen"
    /\ search.by = "greedy"
    /\ search.action = 2
    /\ search.input.state.moves[2].value < search.input.state.moves[1].value
    /\ search.input.draws[1] < search.input.draws[2]
    /\ search.evaluated = <<1, 2>>

----------------------------------------------------------------------------
(* AI players registered with the controller.  An AI is an object with a    *)
(* chooseAction the controller knows nothing about: one kind always answers *)
(* null, the other answers with an action of its own making.               *)

Ais == {[answers |-> "null"], [answers |-> "action"]}

\* what chooseAction of the AI may answer
Choices(ai) == IF ai.answers = "null" THEN {Null} ELSE Actions

\* Mutant of registeredAI: a player without an AI gets some other player's.
registeredAI_Any(registry, playerId) ==
    IF playerId \in DOMAIN registry
    THEN registry[playerId]
    ELSE IF DOMAIN registry = {}
         THEN Null
         ELSE registry[CHOOSE other \in DOMAIN registry : TRUE]

\* this.aiPlayers.get(playerId), Null for undefined
registeredAI(registry, playerId) ==
    IF playerId \in DOMAIN registry
    THEN registry[playerId]
    ELSE Null

RegisterAI(playerId, ai) ==
    /\ aiPlayers' = [id \in DOMAIN aiPlayers \cup {playerId} |->
                        IF id = playerId THEN ai ELSE aiPlayers[id]]
    /\ ret' = [op |-> "registerAI", playerId |-> playerId, threw |-> "none"]
    /\ prev' = Manager
    /\ UNCHANGED <<config, currentState, history, redoStack, players,
                   currentPlayerIndex, events, now, turnOrder, search, bus,
                   checkpoints, heap>>

UnregisterAI(playerId) ==
    /\ aiPlayers' = [id \in DOMAIN aiPlayers \ {playerId} |-> aiPlayers[id]]
    /\ ret' = [op |-> "unregisterAI", playerId |-> playerId, threw |-> "none"]
    /\ prev' = Manager
    /\ UNCHANGED <<config, currentState, history, redoStack, players,
                   currentPlayerIndex, events, now, turnOrder, search, bus,
                   checkpoints, heap>>

\* executeAITurn, the AI's answer awaited within the step; the call of
\* executeAction it ends with is the body of ExecuteAction, its result
\* dropped
ExecuteAITurn ==
    /\ Len(events) < MaxEvents
    /\ IF getCurrentState(Manager) = Null
       THEN /\ ret' = Threw("executeAITurn", NotInitialized)
            /\ UNCHANGED <<currentState, history, redoStack, events>>
       ELSE LET state == getCurrentState(Manager)
                currentPlayerId == state.turnInfo.currentPlayerId
                ai == registeredAI(aiPlayers, currentPlayerId)
            IN IF ai = Null
               THEN /\ ret' = Threw("executeAITurn",
                                    "No AI registered for player")
                    /\ UNCHANGED <<currentState, history, redoStack, events>>
               ELSE \E action \in Choices(ai) :
                      /\ ret' = [op |-> "executeAITurn", threw |-> "none",
                                 chosen |-> action]
                      /\ (action # Null /\ action.type = "move")
                            => state.gameData.score < MaxScore
                      /\ IF action = Null
                         THEN UNCHANGED <<currentState, history, redoStack,
                                          events>>
                         ELSE LET validation == validateAction(action, state)
                              IN IF ~validation.isValid
                                 THEN UNCHANGED <<currentState, history,
                                                  redoStack, events>>
                                 ELSE LET result ==
                                            rulesExecuteAction(action, state)
                                          c == commitResult(Manager, action,
                                                            result)
                                      IN /\ SetManager(c.m)
                                         /\ events' = events \o c.emitted
    /\ prev' = Manager
    /\ UNCHANGED <<config, players, currentPlayerIndex, now, turnOrder,
                   search, aiPlayers, bus,
                   checkpoints, heap>>

\* executeAITurn up to its await: the state and the AI's answer, null or an
\* action the rules allow in that state, are held by the pending call while
\* other calls of the controller may run
StartAITurn ==
    /\ search.kind = "none"
    /\ IF getCurrentState(Manager) = Null
       THEN /\ ret' = Threw("executeAITurn", NotInitialized)
            /\ search' = search
       ELSE LET state == getCurrentState(Manager)
                currentPlayerId == state.turnInfo.currentPlayerId
                ai == registeredAI(aiPlayers, currentPlayerId)
            IN IF ai = Null
               THEN /\ ret' = Threw("executeAITurn",
                                    "No AI registered for player")
                    /\ search' = search
               ELSE \E action \in Choices(ai) :
                      /\ action # Null => validateAction(action, state).isValid
                      /\ ret' = [op |-> "executeAITurn", threw |-> "none",
                                 pending |-> TRUE]
                      /\ search' = [kind |-> "pending", state |-> state,
                                    action |-> action]
    /\ prev' = Manager
    /\ UNCHANGED <<config, currentState, history, redoStack, players,
                   currentPlayerIndex, events, now, turnOrder, aiPlayers,
                   bus, checkpoints, heap>>

\* executeAITurn after its await: executeAction(action) on the controller
\* as it is by then
FinishAITurn ==
    /\ search.kind = "pending"
    /\ Len(events) < MaxEvents
    /\ search' = [kind |-> "none"]
    /\ LET action == search.action
           state == getCurrentState(Manager)
       IN /\ ret' = [op |-> "executeAITurn", threw |-> "none",
                     chosen |-> action]
          /\ (action # Null /\ action.type = "move" /\ state # Null)
                => state.gameData.score < MaxScore
          /\ IF action = Null \/ state = Null
             THEN UNCHANGED <<currentState, history, redoStack, events>>
             ELSE LET validation == validateAction(action, state)
                  IN IF ~validation.isValid
                     THEN UNCHANGED <<currentState, history, redoStack,
                                      events>>
                     ELSE LET result == rulesExecuteAction(action, state)
                              c == commitResult(Manager, action, result)
                          IN /\ SetManager(c.m)
                             /\ events' = events \o c.emitted
    /\ prev' = Manager
    /\ UNCHANGED <<config, players, currentPlayerIndex, now, turnOrder,
                   aiPlayers, bus, checkpoints, heap>>

\* The controller is initialized once and given one AI; the calls made
\* while a turn is pending are executeAction, endTurn, undo and redo.
NoTurnPending == search.kind = "none"

NextPending ==
    \/ \E cfg \in Configs :
          NoTurnPending /\ ~Initialized /\ Initialize(cfg)
    \/ \E playerId \in {"p1", "p2"}, ai \in Ais :
          NoTurnPending /\ aiPlayers = NoAIs /\ RegisterAI(playerId, ai)
    \/ StartAITurn
    \/ FinishAITurn
    \/ \E action \in Actions : ExecuteAction(action)
    \/ EndTurn
    \/ Undo
    \/ Redo

SpecPending == Init /\ [][NextPending]_vars

NextAITurn ==
    \/ \E cfg \in Configs : Initialize(cfg)
    \/ \E playerId \in {"p1", "p2"}, ai \in Ais : RegisterAI(playerId, ai)
    \/ \E playerId \in {"p1", "p2"} : UnregisterAI(playerId)
    \/ ExecuteAITurn
    \/ EndTurn

SpecAITurn == Init /\ [][NextAITurn]_vars

\* C25: executeAITurn on an initialized controller: without an AI
\* registered for the current player it throws and changes nothing; when
\* the AI's chooseAction answers null it returns normally with state,
\* history, redo stack and events as before; otherwise state and events
\* afterwards are those of one executeAction of the chosen action.
C25_ExecuteAITurn ==
    [][ (ret'.op = "executeAITurn" /\ Initialized) =>
          LET playerId == currentState.turnInfo.currentPlayerId
          IN IF playerId \notin DOMAIN aiPlayers
             THEN /\ ret'.threw = "No AI registered for player"
                  /\ StateUnchanged
                  /\ events' = events
             ELSE /\ ret'.threw = "none"
                  /\ ret'.chosen \in Choices(aiPlayers[playerId])
                  /\ IF ret'.chosen = Null
                        \/ ~validateAction(ret'.chosen, currentState).isValid
                     THEN StateUnchanged /\ events' = events
                     ELSE LET result == rulesExecuteAction(ret'.chosen,
                                                           currentState)
                              once == commitResult(Manager, ret'.chosen,
                                                   result)
                          IN /\ currentState' = once.m.currentState
                             /\ history' = once.m.history
                             /\ redoStack' = once.m.redoStack
                             /\ events' = events \o once.emitted
                             /\ CountType(events', "actionExecuted")
                                  <= CountType(events, "actionExecuted") + 1
       ]_vars

\* reached: executeAITurn has thrown for the second player, who has no AI
\* while the first has one that played a move in the first turn
C25_Witness ==
    /\ ret.op = "executeAITurn"
    /\ ret.threw = "No AI registered for player"
    /\ Initialized
    /\ currentState.turnInfo.currentPlayerId = "p2"
    /\ DOMAIN aiPlayers = {"p1"}
    /\ aiPlayers["p1"].answers = "action"
    /\ CountType(events, "actionExecuted") = 1

----------------------------------------------------------------------------
(* The event bus.  sets are the Set objects of handlers in creation order,  *)
(* each in insertion order; listeners maps an event to the index of its    *)
(* Set; closures are the unsubscribe functions handed out, each holding    *)
(* the Set it was made for; log is the trace of the calls made.            *)

MaxBusCalls == 5

Handlers == {"h1", "h2"}
BusEvents == {"turnStarted", "gameEnded"}

\* Set.prototype.add: insertion order, no duplicates
setAdd(set, handler) ==
    IF handler \in Ids(set) THEN set ELSE Append(set, handler)

\* Set.prototype.delete
setDelete(set, handler) ==
    SelectSeq(set, LAMBDA h : h # handler)

\* Map.prototype.delete
mapDelete(map, key) == [k \in DOMAIN map \ {key} |-> map[k]]

\* on(event, handler): the bus afterwards; the function returned is the
\* last of its closures
on(b, event, handler) ==
    LET sets1 == IF event \in DOMAIN b.listeners
                 THEN b.sets
                 ELSE Append(b.sets, <<>>)
        listeners1 == IF event \in DOMAIN b.listeners
                      THEN b.listeners
                      ELSE [e \in DOMAIN b.listeners \cup {event} |->
                              IF e = event THEN Len(sets1)
                                           ELSE b.listeners[e]]
        handlers == listeners1[event]
    IN [b EXCEPT !.sets = [sets1 EXCEPT ![handlers] = setAdd(@, handler)],
                 !.listeners = listeners1,
                 !.closures = Append(@, [event |-> event, handlers |-> handlers,
                                         handler |-> handler])]

\* a call of the function on returned: the handler leaves the Set the
\* function holds, and when that Set is empty the event leaves the map
unsubscribe(b, closure) ==
    LET handlers == setDelete(b.sets[closure.handlers], closure.handler)
    IN [b EXCEPT !.sets = [@ EXCEPT ![closure.handlers] = handlers],
                 !.listeners = IF Len(handlers) = 0
                               THEN mapDelete(@, closure.event)
                               ELSE @]

\* emit(event, data): the handlers invoked, in order (no handler was
\* subscribed with once)
emit(b, event) ==
    IF event \in DOMAIN b.listeners
    THEN b.sets[b.listeners[event]]
    ELSE <<>>

On(event, handler) ==
    /\ Len(bus.log) < MaxBusCalls
    /\ bus' = [on(bus, event, handler) EXCEPT
                 !.log = Append(@, [op |-> "on", event |-> event,
                                    handler |-> handler])]
    /\ UNCHANGED <<config, currentState, history, redoStack, players,
                   currentPlayerIndex, events, now, ret, turnOrder, prev,
                   search, aiPlayers,
                   checkpoints, heap>>

Unsubscribe(k) ==
    /\ Len(bus.log) < MaxBusCalls
    /\ k <= Len(bus.closures)
    /\ bus' = [unsubscribe(bus, bus.closures[k]) EXCEPT
                 !.log = Append(@, [op |-> "unsubscribe", closure |-> k])]
    /\ UNCHANGED <<config, currentState, history, redoStack, players,
                   currentPlayerIndex, events, now, ret, turnOrder, prev,
                   search, aiPlayers,
                   checkpoints, heap>>

Emit(event) ==
    /\ Len(bus.log) < MaxBusCalls
    /\ bus' = [bus EXCEPT
                 !.log = Append(@, [op |-> "emit", event |-> event,
                                    invoked |-> emit(bus, event)])]
    /\ UNCHANGED <<config, currentState, history, redoStack, players,
                   currentPlayerIndex, events, now, ret, turnOrder, prev,
                   search, aiPlayers,
                   checkpoints, heap>>

NextEventBus ==
    \/ \E event \in BusEvents, handler \in Handlers : On(event, handler)
    \/ \E k \in 1..MaxBusCalls : Unsubscribe(k)
    \/ \E event \in BusEvents : Emit(event)

SpecEventBus == Init /\ [][NextEventBus]_vars

\* The subscriptions in force after the calls of log: on(event, handler)
\* subscribes the handler to the event, a call of a function that on
\* returned for the event and the handler ends that.
RECURSIVE Subscribed(_, _)
Subscribed(log, closures) ==
    IF log = <<>>
    THEN {}
    ELSE LET before == Subscribed(Front(log), closures)
             call == Last(log)
         IN CASE call.op = "on" ->
                   before \cup {<<call.event, call.handler>>}
              [] call.op = "unsubscribe" ->
                   before \ {<<closures[call.closure].event,
                               closures[call.closure].handler>>}
              [] OTHER -> before

\* the step is an emission of an event
Emitted == Len(bus'.log) > Len(bus.log) /\ Last(bus'.log).op = "emit"

\* C26: an emission of an event invokes no handler whose unsubscribe
\* function has been called since it subscribed to the event, and invokes
\* every handler that is still subscribed to it.
C26_UnsubscribedNotInvokedOthersAre ==
    [][ Emitted =>
          LET call == Last(bus'.log)
          IN Ids(call.invoked) =
               { handler \in Handlers :
                   <<call.event, handler>>
                       \in Subscribed(bus.log, bus.closures) } ]_vars

\* ---- reset ----

\* the condition of a controller that has not been initialized
Uninitialized ==
    /\ config = Null
    /\ Manager = [currentState |-> Null, history |-> <<>>, redoStack |-> <<>>]
    /\ players = <<>>
    /\ currentPlayerIndex = 0

\* C27: reset emits gameReset once and leaves the controller uninitialized;
\* while it is uninitialized getState, executeAction and endTurn fail with
\* 'Game not initialized', undo and redo return false, and only a successful
\* initialize ends that condition; the initialize that ends it leaves an
\* empty history and the first player of the new configuration to move.
C27_ResetReturnsToUninitialized ==
    [][ /\ ret'.op = "reset"
           => /\ events' = Append(events, gameReset)
              /\ Uninitialized'
        /\ Uninitialized
           => /\ ret'.op \in {"getState", "executeAction", "endTurn"}
                 => /\ ret'.threw = NotInitialized
                    /\ Uninitialized'
                    /\ events' = events
              /\ ret'.op \in {"undo", "redo"}
                 => /\ ret' = Returned(ret'.op, FALSE)
                    /\ Uninitialized'
                    /\ events' = events
              /\ (ret'.op = "initialize" /\ ret'.threw # "none")
                 => Uninitialized'
              /\ (ret'.op = "initialize" /\ ret'.threw = "none")
                 => /\ history' = <<>>
                    /\ redoStack' = <<>>
                    /\ currentPlayerIndex' = 0
                    /\ players' = ret'.config.players
                    /\ currentState'.turnInfo.currentPlayerId
                         = ret'.config.players[1] ]_vars

\* a game with a committed action was reset and then initialized again
C27_Witness ==
    /\ ret.op = "initialize"
    /\ ret.threw = "none"
    /\ history = <<>>
    /\ Len(events) >= 4
    /\ events[Len(events) - 2] = gameReset
    /\ \E i \in 1..(Len(events) - 3) :
          /\ events[i].type = "actionExecuted"
          /\ \A j \in (i + 1)..(Len(events) - 3) :
                events[j].type \notin {"actionUndone", "gameStarted",
                                       "gameReset"}

\* ---- the depth limit of minimax ----

\* the number of states within a number of actions of a state, the state
\* itself not counted, when no state has more than two actions
RECURSIVE statesWithin(_)
statesWithin(plies) ==
    IF plies = 0 THEN 0 ELSE 2 * (1 + statesWithin(plies - 1))

\* a state as many actions away from the root as the path is long is no
\* more than maxDepth plies below the root
Within(path, maxDepth) == Len(path) * Ply <= maxDepth

\* C28: for every maxDepth from 1 on, a Minimax chooseAction makes a
\* bounded number of calls and returns, also on a game whose graph has
\* cycles: every state it simulated or evaluated is at most maxDepth plies
\* below the state it was called with, and every state it called
\* evaluateState on is at the depth limit or terminal.
C28_MinimaxStaysWithinMaxDepth ==
    [][ Chose("minimax") =>
          LET calls == search'.calls
              maxDepth == maxDepthOf(search.aiConfig)
              simulations == { i \in 1..Len(calls) :
                                 calls[i].fn = "simulateAction" }
          IN /\ Cardinality(simulations) <= statesWithin(maxDepth \div Ply)
             /\ \A i \in 1..Len(calls) :
                  /\ Within(calls[i].path, maxDepth)
                  /\ calls[i].fn = "evaluateState"
                     => \/ ~Within(calls[i].path \o <<1>>, maxDepth)
                        \/ isTerminalState(calls[i].state) ]_vars

\* ---- minimax on a state without actions ----

\* a call of minimax on a state that is not terminal, above the depth
\* limit, whose player to move has no action
Stuck(call) ==
    /\ call.fn = "minimax"
    /\ call.depth > 0
    /\ ~isTerminalState(call.state)
    /\ Len(getActionsForState(call.state)) = 0

\* the calls of minimax on the state the path leads to
CallsOn(calls, path) ==
    { j \in 1..Len(calls) : calls[j].fn = "minimax" /\ calls[j].path = path }

\* C29: a call of minimax on a state that is not terminal, with depth > 0,
\* whose player to move has no action, returns minus infinity at a
\* maximizing ply and plus infinity at a minimizing ply, and evaluateState
\* is not called on the state; the caller takes the value as the value of
\* any child: the call of minimax on the parent returns it as its maximum or
\* minimum, and at the root the action chosen is the first one of that value.
C29_NoActionsGivesSentinel ==
    [][ Chose("minimax") =>
          LET calls == search'.calls
          IN \A i \in 1..Len(calls) :
               Stuck(calls[i]) =>
                 /\ calls[i].value = IF calls[i].maximizingPlayer
                                     THEN NegInf
                                     ELSE PosInf
                 /\ \A j \in 1..Len(calls) :
                       calls[j].fn = "evaluateState"
                          => calls[j].path # calls[i].path
                 /\ IF Len(calls[i].path) > 1
                    THEN /\ CallsOn(calls, Front(calls[i].path)) # {}
                         /\ \A j \in CallsOn(calls, Front(calls[i].path)) :
                               calls[j].value = calls[i].value
                    ELSE /\ search'.action <= calls[i].path[1]
                         /\ \A j \in CallsOn(calls, <<search'.action>>) :
                               calls[j].value = calls[i].value ]_vars

\* a search in which a state without actions came second among the children
\* of its parent, after a child of an ordinary value, and one in which the
\* state is the one a root action leads to
C29_Witness ==
    /\ search.kind = "chosen"
    /\ search.by = "minimax"
    /\ \E i, j \in 1..Len(search.calls) :
          /\ Stuck(search.calls[i])
          /\ Len(search.calls[i].path) = 2
          /\ search.calls[i].path[2] = 2
          /\ search.calls[i].value = NegInf
          /\ search.calls[j].fn = "minimax"
          /\ search.calls[j].path = <<search.calls[i].path[1], 1>>
          /\ search.calls[j].value \in Values
    /\ \E i \in 1..Len(search.calls) :
          /\ Stuck(search.calls[i])
          /\ search.calls[i].path = <<2>>
          /\ search.action = 2

\* ---- the shape of the MCTS tree ----

\* the node has one child per action of its state, in the order of the
\* actions, each made from the action and pointing back to the node
FullyExpanded(nodes, node) ==
    LET actions == getActionsForState(nodes[node].state)
        children == nodes[node].children
    IN /\ Len(children) = Len(actions)
       /\ \A i \in 1..Len(children) :
             /\ children[i] \in 1..Len(nodes)
             /\ nodes[children[i]].parent = node
             /\ nodes[children[i]].action = actions[i]
             /\ nodes[children[i]].state
                   = simulateAction(actions[i], nodes[node].state)

\* C32: at every point of an MCTS search each node has no children or one
\* child per legal action of its state, every child's parent reference
\* points to the node, a node that is parent of none has no parent reference
\* to it, and a node that has children keeps exactly those: no node gains
\* children twice.
C32_ExpansionIsFullWidthAndOnce ==
    [][ (search'.kind = "mcts") =>
          LET after == search'.nodes
          IN /\ \A node \in 1..Len(after) :
                  \/ after[node].children = <<>>
                  \/ FullyExpanded(after, node)
             /\ \A child \in 2..Len(after) :
                  \E i \in 1..Len(after[after[child].parent].children) :
                     after[after[child].parent].children[i] = child
             /\ search.kind = "mcts"
                => \A node \in 1..Len(search.nodes) :
                      search.nodes[node].children # <<>>
                         => after[node].children
                               = search.nodes[node].children ]_vars

\* reached: the root and a child of it have been expanded, and the last pass
\* came again to a node that is not terminal and has no action, which
\* expand left without children a second time
C32_Witness ==
    /\ search.kind = "mcts"
    /\ Len(search.nodes[1].children) = 2
    /\ \E node \in 2..Len(search.nodes) :
          Len(search.nodes[node].children) = 2
    /\ search.simulated # 0
    /\ search.simulated # 1
    /\ ~isTerminalState(search.nodes[search.simulated].state)
    /\ search.nodes[search.simulated].children = <<>>
    /\ search.nodes[search.simulated].visits = 2

\* C33: after every pass of the MCTS loop the visits of the root are the
\* number of passes made, and the visits of every node that has children
\* are the sum of its children's visits or one more.
C33_VisitsAddUp ==
    MctsTree =>
       /\ search.nodes[1].visits = IterationsDone
       /\ \A node \in 1..Len(search.nodes) :
            search.nodes[node].children # <<>> =>
               LET below == SumOfVisits(search.nodes,
                                        search.nodes[node].children)
               IN /\ search.nodes[node].visits >= below
                  /\ search.nodes[node].visits <= below + 1

\* reached: after the last pass a node below the root has one visit more
\* than its children together, and the root as many as its children
C33_Witness ==
    /\ search.kind = "mcts"
    /\ search.i = MaxIterations
    /\ search.nodes[1].visits
          = SumOfVisits(search.nodes, search.nodes[1].children)
    /\ \E node \in 2..Len(search.nodes) :
          /\ search.nodes[node].children # <<>>
          /\ search.nodes[node].visits
               = 1 + SumOfVisits(search.nodes, search.nodes[node].children)
          /\ SumOfVisits(search.nodes, search.nodes[node].children) >= 2

\* ---- what chooseAction returns ----

\* C34: chooseAction(state, availableActions) of a Random, Greedy, Minimax
\* or MCTS AI returns null or an element of availableActions, and null
\* when availableActions is empty.
C34_ChosenActionIsAvailable ==
    [][ (search'.kind = "chosen" /\ search.kind # "chosen") =>
          LET availableActions == search'.input.availableActions
          IN /\ search'.by \in {"random", "greedy", "minimax", "mcts"}
             /\ \/ search'.action = 0
                \/ \E i \in 1..Len(availableActions) :
                      search'.action = availableActions[i]
             /\ availableActions = <<>> => search'.action = 0 ]_vars

\* ---- a game that is over ----

\* C35: once the current state is complete, a call of executeAction commits
\* nothing and emits nothing: the current state, the history and the redo
\* stack stay as they are and the event trace gets no actionExecuted and no
\* gameEnded.
C35_GameOverIsAbsorbing ==
    [][ (ExecutedAction /\ Initialized /\ currentState.isComplete) =>
          /\ StateUnchanged
          /\ \A i \in (Len(events) + 1)..Len(events') :
                events'[i].type \notin {"actionExecuted", "gameEnded"} ]_vars

\* C36: whenever the rules' checkEndCondition reports the end for the
\* current state, the current state is complete.
C36_EndedImpliesComplete ==
    (Initialized /\ checkEndCondition(currentState).isEnded)
        => currentState.isComplete

\* C37: right after a successful initialize the history and the redo stack
\* are empty and the first configured player is to move, whether the
\* controller was initialized before or not.
C37_InitializeStartsAfresh ==
    [][ (ret'.op = "initialize" /\ ret'.threw = "none") =>
          /\ history' = <<>>
          /\ redoStack' = <<>>
          /\ currentPlayerIndex' = 0
          /\ currentState'.turnInfo.currentPlayerId
                = ret'.config.players[1] ]_vars

\* ---- what an unsubscribe function removes ----

\* the subscriptions of the bus: the handlers an emission of each event
\* would invoke
Listening(b) ==
    { pair \in BusEvents \X Handlers : pair[2] \in Ids(emit(b, pair[1])) }

\* the step is a call of an unsubscribe function
Unsubscribed ==
    Len(bus'.log) > Len(bus.log) /\ Last(bus'.log).op = "unsubscribe"

\* C38: a call of an unsubscribe function, the first or a later one, takes
\* no subscription from the bus but the one of its own event and handler.
C38_UnsubscribeRemovesOnlyItsOwn ==
    [][ Unsubscribed =>
          LET closure == bus.closures[Last(bus'.log).closure]
          IN /\ Listening(bus') \subseteq Listening(bus)
             /\ Listening(bus) \ Listening(bus')
                   \subseteq {<<closure.event, closure.handler>>} ]_vars

\* ---- checkpoints ----

\* the newest entries of a history, as many as maxHistorySize allows
Newest(entries) ==
    IF Len(entries) > maxHistorySize
    THEN SubSeq(entries, Len(entries) - maxHistorySize + 1, Len(entries))
    ELSE entries

\* C40: restoreCheckpoint(id) with the id of a saved state returns true,
\* makes the saved state current, pushes the state that was current on the
\* history, which stays within maxHistorySize, and leaves the redo stack
\* empty; with an unknown id it returns false and changes nothing.
C40_RestoreCheckpointIsACommit ==
    [][ (ret'.op = "restoreCheckpoint") =>
          LET checkpoint == mapGet(checkpoints, ret'.checkpointId)
          IN IF checkpoint = Null
             THEN /\ ret'.value = FALSE
                  /\ StateUnchanged
                  /\ checkpoints' = checkpoints
             ELSE /\ ret'.value = TRUE
                  /\ currentState' = checkpoint
                  /\ history' = Newest(Append(history, currentState))
                  /\ Len(history') <= maxHistorySize
                  /\ redoStack' = <<>> ]_vars

\* ---- deepClone of cyclic and shared references ----

\* the objects that value reaches on the heap
RECURSIVE Reachable(_, _)
Reachable(objects, seen) ==
    LET more == seen \cup
                UNION { { objects[k].props[i] : i \in DOMAIN objects[k].props }
                        : k \in seen }
    IN IF more \ {Primitive} = seen THEN seen
       ELSE Reachable(objects, more \ {Primitive})

\* the pairs of values found by following the same properties from the
\* pair of values given
RECURSIVE Correspondence(_, _)
Correspondence(objects, pairs) ==
    LET more ==
          pairs \cup
          UNION { { <<objects[p[1]].props[i], objects[p[2]].props[i]>> :
                      i \in DOMAIN objects[p[1]].props
                            \cap DOMAIN objects[p[2]].props }
                  : p \in { q \in pairs : /\ q[1] # Primitive
                                          /\ q[2] # Primitive } }
    IN IF more = pairs THEN pairs ELSE Correspondence(objects, more)

\* the clone has the shape of the original: the same kinds and properties
\* along every path, and two paths meet in the clone exactly when they meet
\* in the original
SameShape(h) ==
    LET pairs == Correspondence(h.objects, {<<h.root, h.clone>>})
    IN /\ \A p \in pairs :
             /\ (p[1] = Primitive) <=> (p[2] = Primitive)
             /\ p[1] # Primitive /\ p[2] # Primitive =>
                   /\ h.objects[p[1]].kind = h.objects[p[2]].kind
                   /\ Len(h.objects[p[1]].props) = Len(h.objects[p[2]].props)
       /\ \A p, q \in pairs : (p[1] = q[1]) <=> (p[2] = q[2])

NothingInCommon(h) ==
    Reachable(h.objects, {h.root}) \cap Reachable(h.objects, {h.clone}) = {}

\* C31: deep-cloning a payload with cyclic or shared references ends with a
\* graph of the same shape, cycles and sharing kept, that has no object in
\* common with the original
C31_DeepCloneKeepsShape ==
    [][DeepClone => SameShape(heap') /\ NothingInCommon(heap')]_vars

\* ---- a pending AI turn and the calls made meanwhile ----

\* the step ends a pending AI turn by committing its action
PendingTurnCommitted ==
    /\ FinishAITurn
    /\ search.action # Null
    /\ validateAction(search.action, search.state).isValid
    /\ history' # history

\* C39: the action of a pending executeAITurn is committed only on the
\* state it was chosen for, whatever executeAction, endTurn, undo or redo
\* did while chooseAction was pending
C39_PendingTurnCommitsOnItsOwnState ==
    [][PendingTurnCommitted => getCurrentState(Manager) = search.state]_vars

====
